---- MODULE Spec2Model ----
(***************************************************************************)
(* repoman: the concurrency-bounded sync orchestrator (RepoManager) over   *)
(* the configuration model (RepomanConfig) and a duck-typed git gateway.   *)
(*                                                                         *)
(* One state machine: sync_all / sync_account / sync_repo calls made       *)
(* through one RepoManager instance, the asyncio tasks they create, the    *)
(* shared asyncio.Semaphore, the gateway's answers and the progress sink.  *)
(* A task runs atomically between two awaits (single event loop); the      *)
(* awaits of _sync_single_repo are the semaphore, to_thread(has_uncom-     *)
(* mitted_changes), update_repo and clone_repo.                            *)
(***************************************************************************)
EXTENDS Integers, Sequences, FiniteSets, TLC

VARIABLES
    max_concurrent,  \* config.global_config.max_concurrent
    semaphore,       \* RepoManager._semaphore: the number of free permits
    progress,        \* whether the callers pass a progress sink (TRUE) or None (FALSE)
    calls,           \* per call slot: the sync_* call in progress and what it returned
    tasks,           \* per call slot: the _sync_single_repo tasks of that call
    config,          \* the RepomanConfig: RepoManager.config, or the model being constructed
    github,          \* RepoManager.github: a duck-typed double, or the GitHubClient
    disk,            \* the filesystem the GitHubClient works on: what is at each path
    cloned_all,      \* history: the caller has got a sync_all list whose outcomes are all "cloned"
    data,            \* the mapping given to RepomanConfig(**data)
    lookup,          \* the latest config.get_repo_path(account, repo) call and its result
    manager,         \* what RepoManager(config, github_client) gave: the instance, or the error
    listing,         \* the latest RepoManager.list_repos() call and what it returned
    cli,             \* a run of the CLI sync command: the outcomes it got, its summary, its exit
    git,             \* whether the git executable is installed where the GitHubClient runs
    gw               \* one call of a GitHubClient operation: its inputs, its child, its result

vars == <<max_concurrent, progress, semaphore, calls, tasks,
          config, github, disk, cloned_all, data, lookup, manager, listing, cli, git, gw>>

\* what the orchestrator never writes
fixed == <<max_concurrent, progress, config, github, data, lookup, manager, listing, cli,
           git, gw>>

(***************************************************************************)
(* Bounds of the model.                                                    *)
(***************************************************************************)
MaxCalls == 2       \* sync_* calls in flight at once on the instance
MaxTasks == 3       \* per-repository tasks alive at once, over all calls
MaxPermits == 2     \* largest max_concurrent tried

CallIds == 1..MaxCalls

(***************************************************************************)
(* Configuration model (config.py).  A repository entry is a bare name     *)
(* (str) or a RepoConfig record; RepoConfig declares name and local_dir    *)
(* only.                                                                   *)
(***************************************************************************)
None == "None"

RepoConfigFields == {"name", "local_dir"}

BareRepo(n) == [form |-> "str", name |-> n, local_dir |-> None]

RepoConfig(n, d) == [form |-> "RepoConfig", name |-> n, local_dir |-> d]

\* a constructed RepomanConfig
RepomanConfig(global, accts) ==
    [status |-> "constructed", global_config |-> global, accounts |-> accts]

\* the configuration of the manager: a record-form entry among bare names
MixedConfig ==
    RepomanConfig([base_dir |-> "/code"],
        << [name |-> "alice", base_dir |-> None,
            repos |-> <<BareRepo("r1"), BareRepo("r2")>>],
           [name |-> "bob", base_dir |-> "/work",
            repos |-> <<RepoConfig("r3", "/opt/r3")>>] >>)

\* the same accounts with bare names only
BareConfig ==
    RepomanConfig([base_dir |-> "/code"],
        << [name |-> "alice", base_dir |-> None,
            repos |-> <<BareRepo("r1"), BareRepo("r2")>>],
           [name |-> "bob", base_dir |-> "/work",
            repos |-> <<BareRepo("r3")>>] >>)

global_config == config.global_config

accounts == config.accounts

\* names a caller may pass: configured ones and one unknown of each kind
AccountArgs == {"alice", "bob", "carol"}
RepoArgs == {"r1", "r2", "r3", "zz"}

isinstance_RepoConfig(repo) == repo.form = "RepoConfig"

\* next((item for item in accounts if item.name == name), None), as an index; 0 is None
AccountIndex(name) ==
    LET idx == {i \in DOMAIN accounts : accounts[i].name = name}
    IN IF idx = {} THEN 0 ELSE CHOOSE i \in idx : \A j \in idx : i <= j

\* next((item for item in account.repos if name-of(item) == repo_name), None); 0 is None
RepoIndex(a, repo_name) ==
    LET idx == {i \in DOMAIN accounts[a].repos : accounts[a].repos[i].name = repo_name}
    IN IF idx = {} THEN 0 ELSE CHOOSE i \in idx : \A j \in idx : i <= j

\* (mutant) the global base directory is used even when the account has its own
get_repo_path_GlobalBase(account_name, repo) ==
    LET account_config == accounts[AccountIndex(account_name)]
    IN IF isinstance_RepoConfig(repo) /\ repo.local_dir # None
       THEN <<repo.local_dir>>
       ELSE <<global_config.base_dir, account_config.name, repo.name>>

\* RepomanConfig.get_repo_path for a configured account (a path is its sequence of parts)
get_repo_path(account_name, repo) ==
    LET account_config == accounts[AccountIndex(account_name)]
        base_dir == IF account_config.base_dir # None THEN account_config.base_dir
                    ELSE global_config.base_dir
    IN IF isinstance_RepoConfig(repo) /\ repo.local_dir # None
       THEN <<repo.local_dir>>
       ELSE <<base_dir, account_config.name, repo.name>>

\* (mutant) a local_dir override is returned before the account is looked up
call_get_repo_path_OverrideFirst(account_name, repo) ==
    IF isinstance_RepoConfig(repo) /\ repo.local_dir # None
    THEN [raised |-> "", path |-> <<repo.local_dir>>]
    ELSE IF AccountIndex(account_name) = 0
         THEN [raised |-> "ValueError", path |-> <<>>]
         ELSE [raised |-> "", path |-> get_repo_path(account_name, repo)]

\* config.get_repo_path(account, repo) as its caller sees it: the path, or the ValueError
\* of lines 165-167
call_get_repo_path(account_name, repo) ==
    IF AccountIndex(account_name) = 0
    THEN [raised |-> "ValueError", path |-> <<>>]
    ELSE [raised |-> "", path |-> get_repo_path(account_name, repo)]

(***************************************************************************)
(* Construction of the configuration from a mapping (pydantic validation). *)
(* A raw repository item is a str or a dict; a raw path is None or a str.  *)
(***************************************************************************)
MaxAccounts == 2    \* accounts in a mapping
MaxRepos == 2       \* repository items of an account

\* str.strip() on the raw paths of the model
strip(value) == IF value \in {"", " ", "\t"} THEN "" ELSE value

\* Path(value).expanduser().resolve() on the raw paths of the model
expanduser_resolve(value) ==
    CASE value = "~/work" -> "/home/user/work"
      [] value = "~/code" -> "/home/user/code"
      [] OTHER -> value

\* (mutant) a blank string is a path like any other
_expand_path_BlankIsPath(value) ==
    IF value = None THEN None
    ELSE expanduser_resolve(value)

_expand_path(value) ==
    IF value = None THEN None
    ELSE IF strip(value) = "" THEN None
         ELSE expanduser_resolve(value)

\* the characters of the repository names of the model ("" has none)
Chars(name) ==
    CASE name = "r1" -> <<"r", "1">>
      [] name = "r2" -> <<"r", "2">>
      [] name = "a/b" -> <<"a", "/", "b">>
      [] name = "r@1" -> <<"r", "@", "1">>
      [] name = "r 1" -> <<"r", " ", "1">>
      [] name = "r\t1" -> <<"r", "\t", "1">>
      [] name = "r\n1" -> <<"r", "\n", "1">>
      [] name = "r1\n" -> <<"r", "1", "\n">>
      [] name = "a-b_1.2" -> <<"a", "-", "b", "_", "1", ".", "2">>
      [] name = "." -> <<".">>
      [] OTHER -> <<>>

\* the characters the class [A-Za-z0-9._-] of _REPO_NAME_PATTERN admits, among those of
\* the model
_REPO_NAME_PATTERN == {"a", "b", "r", "1", "2", ".", "_", "-"}

\* re.match(r"^[...]+$", name): one or more characters of the class up to the end of the
\* string, where $ also matches just before a newline that ends the string
re_match(chars) ==
    LET n == Len(chars)
        body == IF n > 0 /\ chars[n] = "\n" THEN SubSeq(chars, 1, n - 1) ELSE chars
    IN /\ body # <<>>
       /\ \A i \in DOMAIN body : body[i] \in _REPO_NAME_PATTERN

\* Path(name).name for a name without "/": the name itself, and "" for "."
Path_name(name) == IF Chars(name) = <<".">> THEN "" ELSE name

\* _validate_repo_name: TRUE when it returns, FALSE when it raises
_validate_repo_name(name) ==
    /\ Chars(name) # <<>>
    /\ \A i \in DOMAIN Chars(name) : Chars(name)[i] # "/"
    /\ Path_name(name) = name
    /\ re_match(Chars(name))

StrItem(n) == [form |-> "str", name |-> n, local_dir |-> None, remote_name |-> None]

DictItem(n, d) == [form |-> "dict", name |-> n, local_dir |-> d, remote_name |-> None]

\* a dict item that also carries a remote_name key
DictItemRemote(n, d, rn) == [DictItem(n, d) EXCEPT !.remote_name = rn]

\* RepoConfig.model_validate(item) raises no error: the validators of the declared fields
\* (name, local_dir) pass; a key that is no declared field is ignored
RepoConfig_valid(item) == _validate_repo_name(item.name)

\* normalize_repos: dict items become RepoConfig objects, the others stay as they are
normalize_repos(repos) ==
    [i \in DOMAIN repos |->
        IF repos[i].form = "dict"
        THEN RepoConfig(repos[i].name, _expand_path(repos[i].local_dir))
        ELSE BareRepo(repos[i].name)]

\* validate_repos: at least one entry, and every bare name is a valid name
validate_repos(repos) ==
    /\ repos # <<>>
    /\ \A i \in DOMAIN repos : repos[i].form = "str" => _validate_repo_name(repos[i].name)

\* AccountConfig validates
AccountConfig_valid(acct) ==
    /\ acct.name # "" /\ strip(acct.name) # ""
    /\ \A i \in DOMAIN acct.repos : acct.repos[i].form = "dict" => RepoConfig_valid(acct.repos[i])
    /\ validate_repos(normalize_repos(acct.repos))

AccountConfig(acct) ==
    [name |-> acct.name, base_dir |-> _expand_path(acct.base_dir),
     repos |-> normalize_repos(acct.repos)]

\* Field(ge=1, le=20) of GlobalConfig.max_concurrent
max_concurrent_ge == 1
max_concurrent_le == 20

\* the fields GlobalConfig declares
GlobalConfigFields == {"base_dir", "max_concurrent"}

\* (mutant) the upper bound of max_concurrent is 50
GlobalConfig_valid_Le50(global) ==
    /\ _expand_path(global.base_dir) # None
    /\ max_concurrent_ge <= global.max_concurrent /\ global.max_concurrent <= 50

\* GlobalConfig validates: base_dir must expand to a path, max_concurrent must be within
\* its bounds; a key that is no declared field (timeout) is ignored
GlobalConfig_valid(global) ==
    /\ _expand_path(global.base_dir) # None
    /\ max_concurrent_ge <= global.max_concurrent
    /\ global.max_concurrent <= max_concurrent_le

GlobalConfig(global) ==
    [base_dir |-> _expand_path(global.base_dir), max_concurrent |-> global.max_concurrent]

NoConfig == [status |-> "none", global_config |-> [base_dir |-> None], accounts |-> <<>>]

ValidationError == [NoConfig EXCEPT !.status = "ValidationError"]

\* RepomanConfig(**data): the model, or the ValidationError
model_validate(d) ==
    IF /\ GlobalConfig_valid(d.global)
       /\ \A i \in DOMAIN d.accounts : AccountConfig_valid(d.accounts[i])
    THEN RepomanConfig(GlobalConfig(d.global),
                       [i \in DOMAIN d.accounts |-> AccountConfig(d.accounts[i])])
    ELSE ValidationError

\* the mappings tried
SeqsUpTo(S, n) == UNION {[1..k -> S] : k \in 0..n}

RepoItems ==
    {StrItem("r1"), StrItem("r2"), DictItem("r1", None), DictItem("r1", "/opt/r1")}

AccountData ==
    [name : {"alice", "bob"}, base_dir : {None, "~/work"}, repos : SeqsUpTo(RepoItems, MaxRepos)]

\* mappings that vary in their structure: the accounts, their items, the base directories
StructureData ==
    [global : [base_dir : {"~/code", "/srv"}, max_concurrent : {5}, timeout : {300}],
     accounts : SeqsUpTo(AccountData, MaxAccounts)]

\* the repository names tried
NamesTried ==
    {"r1", "a-b_1.2", ".", "", "a/b", "r@1", "r 1", "r\t1", "r\n1", "r1\n"}

MaxConcurrentTried == 21   \* largest max_concurrent given in a mapping

TimeoutsTried == {29, 30, 123, 300, 3600, 3601}

\* one account with one item
OneItemData(global, item) ==
    [global |-> global,
     accounts |-> <<[name |-> "alice", base_dir |-> None, repos |-> <<item>>]>>]

\* mappings that vary in the value of one field: the name or the remote_name of the
\* item, or max_concurrent and timeout of the global settings
FieldData ==
    {OneItemData([base_dir |-> "~/code", max_concurrent |-> 5, timeout |-> 300], item) :
        item \in {StrItem(n) : n \in NamesTried}
                 \cup {DictItemRemote(n, None, rn) : n \in NamesTried,
                                                     rn \in {None, "r2", "r 1"}}}
    \cup {OneItemData([base_dir |-> "~/code", max_concurrent |-> m, timeout |-> t],
                      StrItem("r1")) :
             m \in 0..MaxConcurrentTried, t \in TimeoutsTried}

\* the raw paths tried for an account's base_dir and an item's local_dir
BaseDirsTried == {None, "", " ", "\t", "~/work"}
LocalDirsTried == {None, "", " ", "\t", "/opt/r1"}

\* mappings of one account and one item that vary in the raw paths
PathData ==
    {[global |-> [base_dir |-> "~/code", max_concurrent |-> 5, timeout |-> 300],
      accounts |-> <<[name |-> "alice", base_dir |-> b, repos |-> <<item>>]>>] :
        b \in BaseDirsTried,
        item \in {StrItem("r1")} \cup {DictItem("r1", d) : d \in LocalDirsTried}}

ConfigData == StructureData \cup FieldData \cup PathData

\* the repository arguments get_repo_path is called with
LookupRepos == {BareRepo("r1"), RepoConfig("r1", None), RepoConfig("r1", "/opt/r1")}

(***************************************************************************)
(* SyncResult, and what asyncio.gather(return_exceptions=True) stores for  *)
(* a task: its SyncResult, the Exception it raised, or the CancelledError  *)
(* (a BaseException that is no Exception) that ended it.                   *)
(***************************************************************************)
NoResult ==
    [kind |-> "none", account |-> "", repo |-> "", status |-> "",
     message |-> <<>>, path |-> <<>>]

SyncResult(account, repo, status, message, path) ==
    [kind |-> "SyncResult", account |-> account, repo |-> repo, status |-> status,
     message |-> message, path |-> path]

Raised(kind, message) ==
    [kind |-> kind, account |-> "", repo |-> "", status |-> "",
     message |-> message, path |-> <<>>]

SinkError == <<"sink failed">>
AttributeError == <<"'RepoConfig' object has no attribute 'remote_name'">>

(***************************************************************************)
(* One _sync_single_repo task.  ex, dirty and op are the answers the       *)
(* gateway gave to repo_exists, has_uncommitted_changes and clone_repo /   *)
(* update_repo; made counts the gateway invocations (as the test doubles   *)
(* record them); events are the calls made to the progress sink.           *)
(***************************************************************************)
NewTask(account_name, repo) ==
    [account |-> account_name, repo |-> repo,
     pc |-> "created", path |-> <<>>, slug |-> "", holding |-> FALSE,
     ex |-> "none", dirty |-> "none", op |-> "none",
     made |-> [repo_exists |-> 0, has_uncommitted_changes |-> 0,
               clone_repo |-> 0, update_repo |-> 0],
     events |-> <<>>, sink_raised |-> FALSE, result |-> NoResult]

\* (mutant) the task ends without leaving `async with`: its permit is never released
Finish_KeepsPermit(t, r) == [t EXCEPT !.pc = "done", !.result = r]

\* the task ends: the coroutine returns or raises, `async with` has released the permit
Finish(t, r) == [t EXCEPT !.pc = "done", !.holding = FALSE, !.result = r]

\* `if progress: progress(message, level=level)`; raises is what the sink does when called
Emit(t, level, kind, detail, raises) ==
    IF progress
    THEN [t EXCEPT !.events = Append(@, [level |-> level,
                                         message |-> <<kind, t.account, t.repo.name>> \o detail]),
                   !.sink_raised = @ \/ raises]
    ELSE t

SinkRaises(t, raises) == progress /\ raises

\* (mutant) the permit is given back on the normal returns only
ExceptHandler_KeepsPermit(t, exc_message, raises) ==
    LET t1 == Emit(t, "error", "Failed", exc_message, raises)
        r == IF SinkRaises(t, raises) THEN Raised("Exception", SinkError)
             ELSE SyncResult(t.account, t.repo.name, "error", exc_message, t.path)
    IN [t1 EXCEPT !.pc = "done", !.result = r]

\* lines 218-227: except Exception as exc; the "Failed" event is emitted outside any try
ExceptHandler(t, exc_message, raises) ==
    LET t1 == Emit(t, "error", "Failed", exc_message, raises)
    IN IF SinkRaises(t, raises)
       THEN Finish(t1, Raised("Exception", SinkError))
       ELSE Finish(t1, SyncResult(t.account, t.repo.name, "error", exc_message, t.path))

\* (mutant) the "Syncing" event is emitted before the permit is asked for
Begin_EmitsFirst(t) ==
    IF isinstance_RepoConfig(t.repo) /\ "remote_name" \notin RepoConfigFields
    THEN Finish(t, Raised("Exception", AttributeError))
    ELSE [Emit(t, "info", "Syncing", <<>>, FALSE) EXCEPT
                   !.slug = t.repo.name,
                   !.path = get_repo_path(t.account, t.repo),
                   !.pc = "acquire"]

\* lines 185-188, before the semaphore and outside the try
Begin(t) ==
    IF isinstance_RepoConfig(t.repo) /\ "remote_name" \notin RepoConfigFields
    THEN Finish(t, Raised("Exception", AttributeError))
    ELSE [t EXCEPT !.slug = t.repo.name,
                   !.path = get_repo_path(t.account, t.repo),
                   !.pc = "acquire"]

\* (mutant) repo_exists is asked before the "Syncing" event is emitted
AfterAcquire_ExistsFirst(t, exists, raises) ==
    LET t0 == [t EXCEPT !.holding = TRUE, !.ex = IF exists THEN "yes" ELSE "no",
                        !.made.repo_exists = @ + 1]
        t1 == Emit(t0, "info", "Syncing", <<>>, raises)
    IN IF SinkRaises(t, raises)
       THEN Finish(t1, Raised("Exception", SinkError))
       ELSE IF exists
            THEN [t1 EXCEPT !.pc = "await_changes",
                            !.made.has_uncommitted_changes = @ + 1]
            ELSE [t1 EXCEPT !.pc = "await_clone", !.made.clone_repo = @ + 1]

\* lines 190-195 / 214: the permit is held; up to the first await
AfterAcquire(t, exists, raises) ==
    LET t0 == [t EXCEPT !.holding = TRUE]
        t1 == Emit(t0, "info", "Syncing", <<>>, raises)
        t2 == [t1 EXCEPT !.ex = IF exists THEN "yes" ELSE "no",
                         !.made.repo_exists = @ + 1]
    IN IF SinkRaises(t, raises)
       THEN Finish(t1, Raised("Exception", SinkError))
       ELSE IF exists
            THEN [t2 EXCEPT !.pc = "await_changes",
                            !.made.has_uncommitted_changes = @ + 1]
            ELSE [t2 EXCEPT !.pc = "await_clone", !.made.clone_repo = @ + 1]

\* str(GitNotFoundError("git command not found")), github.py line 86
GitNotFoundMessage == <<"git command not found">>

SkippedMessage(t) == <<"Skipped", t.account, t.repo.name, "due to uncommitted changes">>

\* (mutant) a repository with uncommitted changes is updated like a clean one
AfterHasChanges_IgnoresDirty(t, r, raises1, raises2) ==
    LET t0 == [t EXCEPT !.dirty = r]
    IN CASE r \in {"yes", "no"} ->
              LET t1 == Emit(t0, "info", "Updating", <<>>, raises1)
              IN IF SinkRaises(t, raises1)
                 THEN ExceptHandler(t1, SinkError, raises2)
                 ELSE [t1 EXCEPT !.pc = "await_update", !.made.update_repo = @ + 1]
         [] r = "exc" -> ExceptHandler(t0, <<"status failed">>, raises1)
         [] OTHER -> Finish(t0, Raised("CancelledError", <<>>))

\* lines 195-209: to_thread(has_uncommitted_changes) answered r
AfterHasChanges(t, r, raises1, raises2) ==
    LET t0 == [t EXCEPT !.dirty = r]
    IN CASE r = "yes" ->
              LET t1 == Emit(t0, "warning", "Skipped", <<"due to uncommitted changes">>, raises1)
              IN IF SinkRaises(t, raises1)
                 THEN ExceptHandler(t1, SinkError, raises2)
                 ELSE Finish(t1, SyncResult(t.account, t.repo.name, "skipped",
                                            SkippedMessage(t), t.path))
         [] r = "no" ->
              LET t1 == Emit(t0, "info", "Updating", <<>>, raises1)
              IN IF SinkRaises(t, raises1)
                 THEN ExceptHandler(t1, SinkError, raises2)
                 ELSE [t1 EXCEPT !.pc = "await_update", !.made.update_repo = @ + 1]
         [] r = "exc" -> ExceptHandler(t0, <<"status failed">>, raises1)
         [] OTHER -> Finish(t0, Raised("CancelledError", <<>>))

\* lines 209-213: update_repo answered r
AfterUpdate(t, r, raises1, raises2) ==
    LET t0 == [t EXCEPT !.op = r]
    IN CASE r \in {"changed", "unchanged"} ->
              LET status == IF r = "changed" THEN "updated" ELSE "up-to-date"
                  t1 == Emit(t0, "info", "Updated", <<>>, raises1)
              IN IF SinkRaises(t, raises1)
                 THEN ExceptHandler(t1, SinkError, raises2)
                 ELSE Finish(t1, SyncResult(t.account, t.repo.name, status,
                                            <<"stdout", r>>, t.path))
         [] r = "exc" -> ExceptHandler(t0, <<"pull failed">>, raises1)
         [] r = "git_not_found" -> ExceptHandler(t0, GitNotFoundMessage, raises1)
         [] OTHER -> Finish(t0, Raised("CancelledError", <<>>))

\* (mutant) a clone that failed is tried a second time
AfterClone_RetryOnce(t, r, raises1, raises2) ==
    LET t0 == [t EXCEPT !.op = r]
    IN CASE r = "ok" ->
              LET t1 == Emit(t0, "success", "Cloned", <<>>, raises1)
              IN IF SinkRaises(t, raises1)
                 THEN ExceptHandler(t1, SinkError, raises2)
                 ELSE Finish(t1, SyncResult(t.account, t.repo.name, "cloned", <<>>, t.path))
         [] r = "exc" ->
              IF t.made.clone_repo < 2
              THEN [t0 EXCEPT !.made.clone_repo = @ + 1]
              ELSE ExceptHandler(t0, <<"clone failed">>, raises1)
         [] r = "git_not_found" -> ExceptHandler(t0, GitNotFoundMessage, raises1)
         [] OTHER -> Finish(t0, Raised("CancelledError", <<>>))

\* lines 214-217: clone_repo answered r
AfterClone(t, r, raises1, raises2) ==
    LET t0 == [t EXCEPT !.op = r]
    IN CASE r = "ok" ->
              LET t1 == Emit(t0, "success", "Cloned", <<>>, raises1)
              IN IF SinkRaises(t, raises1)
                 THEN ExceptHandler(t1, SinkError, raises2)
                 ELSE Finish(t1, SyncResult(t.account, t.repo.name, "cloned", <<>>, t.path))
         [] r = "exc" -> ExceptHandler(t0, <<"clone failed">>, raises1)
         [] r = "git_not_found" -> ExceptHandler(t0, GitNotFoundMessage, raises1)
         [] OTHER -> Finish(t0, Raised("CancelledError", <<>>))

(***************************************************************************)
(* The calls.                                                              *)
(***************************************************************************)
IdleCall ==
    [kind |-> "none", st |-> "idle", account_name |-> "", repo_name |-> "",
     ret |-> <<>>, exc |-> ""]

RECURSIVE SumLen(_)
SumLen(S) ==
    IF S = {} THEN 0
    ELSE LET c == CHOOSE x \in S : TRUE IN Len(tasks[c]) + SumLen(S \ {c})

LiveTasks == SumLen(CallIds)

\* for account in accounts: for repo in account.repos: create_task(...)   (lines 80-83)
RECURSIVE AllPairs(_)
AllPairs(a) ==
    IF a > Len(accounts) THEN <<>>
    ELSE [i \in 1..Len(accounts[a].repos) |-> <<a, i>>] \o AllPairs(a + 1)

AccountPairs(a) == [i \in 1..Len(accounts[a].repos) |-> <<a, i>>]

CreateTasks(pairs) ==
    [k \in 1..Len(pairs) |->
        NewTask(accounts[pairs[k][1]].name, accounts[pairs[k][1]].repos[pairs[k][2]])]

\* the loop over gather's results (lines 85-99 and 120-134); account is what an
\* exception's outcome is labelled with
RECURSIVE ResultLoop(_, _)
ResultLoop(results, account) ==
    IF results = <<>> THEN <<>>
    ELSE LET result == Head(results)
             rest == ResultLoop(Tail(results), account)
         IN IF result.kind = "SyncResult" THEN <<result>> \o rest
            ELSE IF result.kind = "Exception"
                 THEN <<SyncResult(account, "unknown", "error", result.message, <<".">>)>> \o rest
                 ELSE rest

\* (mutant) the first exception among the results ends the loop
RECURSIVE ResultLoop_StopAtException(_, _)
ResultLoop_StopAtException(results, account) ==
    IF results = <<>> THEN <<>>
    ELSE IF Head(results).kind = "SyncResult"
         THEN <<Head(results)>> \o ResultLoop_StopAtException(Tail(results), account)
         ELSE <<SyncResult(account, "unknown", "error", Head(results).message, <<".">>)>>

final_results_StopAtException(results, account) == ResultLoop_StopAtException(results, account)

final_results(results, account) == ResultLoop(results, account)

GatherResults(c) == [k \in 1..Len(tasks[c]) |-> tasks[c][k].result]

AllDone(c) == \A k \in 1..Len(tasks[c]) : tasks[c][k].pc = "done"

\* (mutant) the semaphore admits a task whatever its value
CanAcquire_Unbounded == TRUE

\* async with self._semaphore: a permit is free
CanAcquire == semaphore > 0

(***************************************************************************)
(* The gateway.  A double (the tests' fakes) answers as it likes; the      *)
(* GitHubClient answers from the filesystem, on which a path holds a       *)
(* repository ("repo"), a plain directory ("dir") or nothing ("absent").   *)
(***************************************************************************)
\* the paths of the configured repositories
ConfiguredPaths ==
    {get_repo_path(accounts[AllPairs(1)[i][1]].name,
                   accounts[AllPairs(1)[i][1]].repos[AllPairs(1)[i][2]]) :
        i \in DOMAIN AllPairs(1)}

\* dest.parent
Parent(path) == SubSeq(path, 1, Len(path) - 1)

\* what the filesystem of the model holds: the configured paths and their parents,
\* each a repository ("repo"), a plain directory ("dir") or nothing ("absent")
DiskPaths == ConfiguredPaths \cup {Parent(p) : p \in ConfiguredPaths}

\* str(FileExistsError) of a mkdir that found its directory
FileExistsMessage == <<"File exists">>

\* (mutant) the parent is created with exist_ok=False
mkdir_NotExistOk(d, path) ==
    IF d[path] = "absent"
    THEN [raised |-> FALSE, disk |-> [d EXCEPT ![path] = "dir"]]
    ELSE [raised |-> TRUE, disk |-> d]

\* dest.parent.mkdir(parents=True, exist_ok=True) on the filesystem d (line 123)
mkdir(d, path) ==
    IF d[path] = "absent"
    THEN [raised |-> FALSE, disk |-> [d EXCEPT ![path] = "dir"]]
    ELSE [raised |-> FALSE, disk |-> d]

\* GitHubClient.repo_exists: path.is_dir() and (path / ".git").is_dir()
repo_exists(path) == disk[path] = "repo"

\* what self.github.repo_exists(path) can answer
ExistsAnswers(path) == IF github = "GitHubClient" THEN {repo_exists(path)} ELSE BOOLEAN

\* the GitHubClient cannot start git: create_subprocess_exec raises FileNotFoundError
GitMissing == github = "GitHubClient" /\ ~git

\* how `await self.github.clone_repo(...)` can end; git refuses to clone onto a repository,
\* and without git the call ends in GitNotFoundError ("git_not_found")
CloneAnswers(path) ==
    IF GitMissing THEN {"git_not_found", "cancelled"}
    ELSE IF github = "GitHubClient" /\ repo_exists(path)
         THEN {"exc", "cancelled"}
         ELSE {"ok", "exc", "cancelled"}

\* how `await self.github.update_repo(...)` can end
UpdateAnswers ==
    IF GitMissing THEN {"git_not_found", "cancelled"}
    ELSE {"changed", "unchanged", "exc", "cancelled"}

\* how to_thread(has_uncommitted_changes) can end; without git it returns False
HasChangesAnswers ==
    IF GitMissing THEN {"no", "cancelled"}
    ELSE {"yes", "no", "exc", "cancelled"}

\* clone_repo up to its first await (lines 123-126), run by the task that called it:
\* the GitHubClient creates the parent of the destination, and an OSError of the
\* mkdir ends the task in the except clause of _sync_single_repo
clone_repo_start(t, raises) ==
    IF github = "GitHubClient" /\ t.pc = "await_clone"
    THEN LET m == mkdir(disk, Parent(t.path))
         IN [task |-> IF m.raised THEN ExceptHandler(t, FileExistsMessage, raises) ELSE t,
             disk |-> m.disk]
    ELSE [task |-> t, disk |-> disk]

\* the filesystem once clone_repo has ended with r
DiskAfterClone(path, r) ==
    IF github = "GitHubClient" /\ r = "ok" THEN [disk EXCEPT ![path] = "repo"] ELSE disk

\* the caller reads the list of a sync_all: every configured repository "cloned"
AllCloned(call) ==
    /\ call.kind = "sync_all" /\ call.st = "returned"
    /\ Len(call.ret) = Len(AllPairs(1))
    /\ Len(call.ret) > 0
    /\ \A m \in DOMAIN call.ret : call.ret[m].status = "cloned"

NoData == [global |-> [base_dir |-> None], accounts |-> <<>>]

NoManager == [status |-> "none", explicit |-> FALSE, timeout |-> 0]

NoListing == [called |-> FALSE, results |-> <<>>, queries |-> <<>>]

NoCli == [results |-> <<>>, st |-> "none", summary |-> <<>>, exit |-> 0]

NoGw == [pc |-> "none"]

NoLookup == [account |-> "", repo |-> BareRepo(""), raised |-> "", path |-> <<>>]

Lookup(account_name, repo) ==
    [account |-> account_name, repo |-> repo,
     raised |-> call_get_repo_path(account_name, repo).raised,
     path |-> call_get_repo_path(account_name, repo).path]

\* RepoManager(config, github_client) for a configuration and a gateway
ManagerInit(cfg, client) ==
    /\ config = cfg
    /\ github = client
    /\ max_concurrent \in 1..MaxPermits
    /\ progress \in BOOLEAN
    /\ semaphore = max_concurrent
    /\ calls = [c \in CallIds |-> IdleCall]
    /\ tasks = [c \in CallIds |-> <<>>]
    /\ disk = [p \in DiskPaths |-> "absent"]
    /\ cloned_all = FALSE
    /\ data = NoData
    /\ lookup = NoLookup
    /\ manager = [NoManager EXCEPT !.status = "constructed", !.explicit = TRUE]
    /\ listing = NoListing
    /\ cli = NoCli
    /\ git = TRUE
    /\ gw = NoGw

Init == ManagerInit(MixedConfig, "double")

\* sync_all up to `await asyncio.gather(...)`
sync_all(c) ==
    /\ calls[c].st = "idle"
    /\ LiveTasks + Len(AllPairs(1)) <= MaxTasks
    /\ calls' = [calls EXCEPT ![c] = [IdleCall EXCEPT !.kind = "sync_all", !.st = "running"]]
    /\ tasks' = [tasks EXCEPT ![c] = CreateTasks(AllPairs(1))]
    /\ UNCHANGED <<fixed, semaphore, disk, cloned_all>>

\* (mutant) the tasks are those of the accounts named account_name, none for an unknown name
sync_account_NoLookup(c, account_name) ==
    /\ calls[c].st = "idle"
    /\ LET a == AccountIndex(account_name)
           pairs == IF a = 0 THEN <<>> ELSE AccountPairs(a)
       IN /\ LiveTasks + Len(pairs) <= MaxTasks
          /\ calls' = [calls EXCEPT ![c] = [IdleCall EXCEPT !.kind = "sync_account",
                                                           !.st = "running",
                                                           !.account_name = account_name]]
          /\ tasks' = [tasks EXCEPT ![c] = CreateTasks(pairs)]
    /\ UNCHANGED <<fixed, semaphore, disk, cloned_all>>

\* sync_account up to the gather, or its ValueError
sync_account(c, account_name) ==
    /\ calls[c].st = "idle"
    /\ LET a == AccountIndex(account_name)
           call == [IdleCall EXCEPT !.kind = "sync_account", !.account_name = account_name]
       IN IF a = 0
          THEN /\ calls' = [calls EXCEPT ![c] = [call EXCEPT !.st = "raised", !.exc = "ValueError"]]
               /\ UNCHANGED tasks
          ELSE /\ LiveTasks + Len(AccountPairs(a)) <= MaxTasks
               /\ calls' = [calls EXCEPT ![c] = [call EXCEPT !.st = "running"]]
               /\ tasks' = [tasks EXCEPT ![c] = CreateTasks(AccountPairs(a))]
    /\ UNCHANGED <<fixed, semaphore, disk, cloned_all>>

\* (mutant) a name that is not configured in the account is synced as a bare name
sync_repo_AnyName(c, account_name, repo_name) ==
    /\ calls[c].st = "idle"
    /\ LET a == AccountIndex(account_name)
           r == IF a = 0 THEN 0 ELSE RepoIndex(a, repo_name)
           call == [IdleCall EXCEPT !.kind = "sync_repo"]
       IN IF a = 0
          THEN /\ calls' = [calls EXCEPT ![c] = [call EXCEPT !.st = "raised", !.exc = "ValueError",
                                                            !.account_name = account_name,
                                                            !.repo_name = repo_name]]
               /\ UNCHANGED tasks
          ELSE /\ LiveTasks + 1 <= MaxTasks
               /\ calls' = [calls EXCEPT ![c] = [call EXCEPT !.st = "running"]]
               /\ tasks' = [tasks EXCEPT ![c] =
                               IF r = 0 THEN <<NewTask(account_name, BareRepo(repo_name))>>
                               ELSE CreateTasks(<< <<a, r>> >>)]
    /\ UNCHANGED <<fixed, semaphore, disk, cloned_all>>

\* sync_repo up to `await self._sync_single_repo(...)`, or its ValueError
sync_repo(c, account_name, repo_name) ==
    /\ calls[c].st = "idle"
    /\ LET a == AccountIndex(account_name)
           r == IF a = 0 THEN 0 ELSE RepoIndex(a, repo_name)
           call == [IdleCall EXCEPT !.kind = "sync_repo"]
       IN IF a = 0 \/ r = 0
          THEN /\ calls' = [calls EXCEPT ![c] = [call EXCEPT !.st = "raised", !.exc = "ValueError",
                                                            !.account_name = account_name,
                                                            !.repo_name = repo_name]]
               /\ UNCHANGED tasks
          ELSE /\ LiveTasks + 1 <= MaxTasks
               /\ calls' = [calls EXCEPT ![c] = [call EXCEPT !.st = "running"]]
               /\ tasks' = [tasks EXCEPT ![c] = CreateTasks(<< <<a, r>> >>)]
    /\ UNCHANGED <<fixed, semaphore, disk, cloned_all>>

(***************************************************************************)
(* The steps of a task.  What the gateway answers is chosen when the       *)
(* awaited call completes: its value, "exc" (it raised an Exception:       *)
(* CloneError or UpdateError, which is also what GitHubClient makes of a   *)
(* git command it killed at its timeout, GitNotFoundError, RuntimeError,   *)
(* ...) or                                                                 *)
(* "cancelled" (the await ended in asyncio.CancelledError, which is a      *)
(* BaseException and no Exception: the task was cancelled while            *)
(* suspended).  raises, raises1, raises2 say whether the progress sink     *)
(* raises an Exception at the emissions of the step, in order.             *)
(***************************************************************************)

\* the event loop first runs a task: lines 185-188, up to `async with self._semaphore`
StartTask(c, k) ==
    /\ k \in DOMAIN tasks[c]
    /\ tasks[c][k].pc = "created"
    /\ tasks' = [tasks EXCEPT ![c][k] = Begin(@)]
    /\ UNCHANGED <<fixed, semaphore, calls, disk, cloned_all>>

\* the task gets its permit and runs to its first await (or ends)
Acquire(c, k) ==
    /\ k \in DOMAIN tasks[c]
    /\ tasks[c][k].pc = "acquire"
    /\ CanAcquire
    /\ \E exists \in ExistsAnswers(tasks[c][k].path), raises \in BOOLEAN, raises2 \in BOOLEAN :
          LET s == clone_repo_start(AfterAcquire(tasks[c][k], exists, raises), raises2)
          IN /\ tasks' = [tasks EXCEPT ![c][k] = s.task]
             /\ semaphore' = IF s.task.holding THEN semaphore - 1 ELSE semaphore
             /\ disk' = s.disk
    /\ UNCHANGED <<fixed, calls, cloned_all>>

\* to_thread(has_uncommitted_changes) completes
HasChangesDone(c, k) ==
    /\ k \in DOMAIN tasks[c]
    /\ tasks[c][k].pc = "await_changes"
    /\ \E r \in HasChangesAnswers, raises1 \in BOOLEAN, raises2 \in BOOLEAN :
          LET t == AfterHasChanges(tasks[c][k], r, raises1, raises2)
          IN /\ tasks' = [tasks EXCEPT ![c][k] = t]
             /\ semaphore' = IF t.holding THEN semaphore ELSE semaphore + 1
    /\ UNCHANGED <<fixed, calls, disk, cloned_all>>

\* update_repo completes
UpdateDone(c, k) ==
    /\ k \in DOMAIN tasks[c]
    /\ tasks[c][k].pc = "await_update"
    /\ \E r \in UpdateAnswers, raises1 \in BOOLEAN, raises2 \in BOOLEAN :
          LET t == AfterUpdate(tasks[c][k], r, raises1, raises2)
          IN /\ tasks' = [tasks EXCEPT ![c][k] = t]
             /\ semaphore' = IF t.holding THEN semaphore ELSE semaphore + 1
    /\ UNCHANGED <<fixed, calls, disk, cloned_all>>

\* clone_repo completes
CloneDone(c, k) ==
    /\ k \in DOMAIN tasks[c]
    /\ tasks[c][k].pc = "await_clone"
    /\ \E r \in CloneAnswers(tasks[c][k].path), raises1 \in BOOLEAN, raises2 \in BOOLEAN :
          LET t == AfterClone(tasks[c][k], r, raises1, raises2)
          IN /\ tasks' = [tasks EXCEPT ![c][k] = t]
             /\ semaphore' = IF t.holding THEN semaphore ELSE semaphore + 1
             /\ disk' = DiskAfterClone(tasks[c][k].path, r)
    /\ UNCHANGED <<fixed, calls, cloned_all>>

\* gather has every result: the batch call builds final_results and returns
ReturnBatch(c) ==
    /\ calls[c].st = "running"
    /\ calls[c].kind \in {"sync_all", "sync_account"}
    /\ AllDone(c)
    /\ calls' = [calls EXCEPT ![c].st = "returned",
                              ![c].ret = final_results(GatherResults(c),
                                            IF calls[c].kind = "sync_all" THEN "unknown"
                                            ELSE calls[c].account_name)]
    /\ UNCHANGED <<fixed, semaphore, tasks, disk, cloned_all>>

\* `return await self._sync_single_repo(...)`: the result, or the exception, goes to the caller
ReturnRepo(c) ==
    /\ calls[c].st = "running"
    /\ calls[c].kind = "sync_repo"
    /\ AllDone(c)
    /\ LET result == tasks[c][1].result
       IN calls' = [calls EXCEPT ![c] =
                       IF result.kind = "SyncResult"
                       THEN [@ EXCEPT !.st = "returned", !.ret = <<result>>]
                       ELSE [@ EXCEPT !.st = "raised", !.exc = result.kind]]
    /\ UNCHANGED <<fixed, semaphore, tasks, disk, cloned_all>>

\* the caller has taken what the call returned or raised; the slot is free for a new call
Collect(c) ==
    /\ calls[c].st \in {"returned", "raised"}
    /\ calls' = [calls EXCEPT ![c] = IdleCall]
    /\ tasks' = [tasks EXCEPT ![c] = <<>>]
    /\ cloned_all' = (cloned_all \/ AllCloned(calls[c]))
    /\ UNCHANGED <<fixed, semaphore, disk>>

Next ==
    \/ \E c \in CallIds : sync_all(c)
    \/ \E c \in CallIds, a \in AccountArgs : sync_account(c, a)
    \/ \E c \in CallIds, a \in AccountArgs, r \in RepoArgs : sync_repo(c, a, r)
    \/ \E c \in CallIds, k \in 1..MaxTasks : StartTask(c, k)
    \/ \E c \in CallIds, k \in 1..MaxTasks : Acquire(c, k)
    \/ \E c \in CallIds, k \in 1..MaxTasks : HasChangesDone(c, k)
    \/ \E c \in CallIds, k \in 1..MaxTasks : UpdateDone(c, k)
    \/ \E c \in CallIds, k \in 1..MaxTasks : CloneDone(c, k)
    \/ \E c \in CallIds : ReturnBatch(c)
    \/ \E c \in CallIds : ReturnRepo(c)
    \/ \E c \in CallIds : Collect(c)

Spec == Init /\ [][Next]_vars

(***************************************************************************)
(* The end-to-end scenario: bare names only, the GitHubClient as gateway,  *)
(* nothing on disk at the start, and a caller that runs sync_all again and *)
(* again.                                                                  *)
(***************************************************************************)
InitClient == ManagerInit(BareConfig, "GitHubClient")

NextClient ==
    \/ \E c \in CallIds : sync_all(c)
    \/ \E c \in CallIds, k \in 1..MaxTasks : StartTask(c, k)
    \/ \E c \in CallIds, k \in 1..MaxTasks : Acquire(c, k)
    \/ \E c \in CallIds, k \in 1..MaxTasks : HasChangesDone(c, k)
    \/ \E c \in CallIds, k \in 1..MaxTasks : UpdateDone(c, k)
    \/ \E c \in CallIds, k \in 1..MaxTasks : CloneDone(c, k)
    \/ \E c \in CallIds : ReturnBatch(c)
    \/ \E c \in CallIds : Collect(c)

SpecClient == InitClient /\ [][NextClient]_vars

(***************************************************************************)
(* The scheduling of a sync_all.  The event loop runs every task that is   *)
(* ready (weak fairness of the steps of a task and of the return of the    *)
(* gather); asyncio.Semaphore wakes its waiters in the order they came, so *)
(* a waiter that could take a permit again and again does take one (strong *)
(* fairness of Acquire); and every gateway operation that was started      *)
(* completes, with a value or an exception (weak fairness of the three     *)
(* completions).  The caller is free to call or not; it makes one call at  *)
(* a time and passes no progress sink, and the gateway is a double, which  *)
(* answers in every way a gateway can.                                     *)
(***************************************************************************)
InitLive == ManagerInit(BareConfig, "double") /\ ~progress

NextLive ==
    \/ \E c \in 1..1 : sync_all(c)
    \/ \E c \in 1..1, k \in 1..MaxTasks : StartTask(c, k)
    \/ \E c \in 1..1, k \in 1..MaxTasks : Acquire(c, k)
    \/ \E c \in 1..1, k \in 1..MaxTasks : HasChangesDone(c, k)
    \/ \E c \in 1..1, k \in 1..MaxTasks : UpdateDone(c, k)
    \/ \E c \in 1..1, k \in 1..MaxTasks : CloneDone(c, k)
    \/ \E c \in 1..1 : ReturnBatch(c)
    \/ \E c \in 1..1 : Collect(c)

Fairness ==
    \A c \in 1..1 :
       /\ WF_vars(ReturnBatch(c))
       /\ \A k \in 1..MaxTasks :
             /\ WF_vars(StartTask(c, k))
             /\ SF_vars(Acquire(c, k))
             /\ WF_vars(HasChangesDone(c, k))
             /\ WF_vars(UpdateDone(c, k))
             /\ WF_vars(CloneDone(c, k))

SpecLive == InitLive /\ [][NextLive]_vars /\ Fairness

(***************************************************************************)
(* The same caller on a machine without git: some of the configured        *)
(* repositories are on disk already, and every git command the             *)
(* GitHubClient starts ends in FileNotFoundError.                          *)
(***************************************************************************)
InitGit ==
    /\ config = BareConfig
    /\ github = "GitHubClient"
    /\ max_concurrent \in 1..MaxPermits
    /\ progress \in BOOLEAN
    /\ semaphore = max_concurrent
    /\ calls = [c \in CallIds |-> IdleCall]
    /\ tasks = [c \in CallIds |-> <<>>]
    /\ \E cloned \in SUBSET ConfiguredPaths :
          disk = [p \in DiskPaths |->
                     IF p \in cloned THEN "repo"
                     ELSE IF p \in {Parent(q) : q \in cloned} THEN "dir" ELSE "absent"]
    /\ cloned_all = FALSE
    /\ data = NoData
    /\ lookup = NoLookup
    /\ manager = [NoManager EXCEPT !.status = "constructed", !.explicit = TRUE]
    /\ listing = NoListing
    /\ cli = NoCli
    /\ git = FALSE
    /\ gw = NoGw

SpecGit == InitGit /\ [][NextClient]_vars

(***************************************************************************)
(* The configuration alone: a mapping is validated into a RepomanConfig    *)
(* (or rejected), and paths are resolved on the constructed model.         *)
(***************************************************************************)
InitConfig ==
    /\ data \in ConfigData
    /\ config = NoConfig
    /\ lookup = NoLookup
    /\ github = None
    /\ max_concurrent = 1
    /\ progress = FALSE
    /\ semaphore = max_concurrent
    /\ calls = [c \in CallIds |-> IdleCall]
    /\ tasks = [c \in CallIds |-> <<>>]
    /\ disk = [p \in ConfiguredPaths |-> "absent"]
    /\ cloned_all = FALSE
    /\ manager = NoManager
    /\ listing = NoListing
    /\ cli = NoCli
    /\ git = TRUE
    /\ gw = NoGw

\* config = RepomanConfig(**data)
Construct ==
    /\ config.status = "none"
    /\ config' = model_validate(data)
    /\ UNCHANGED <<max_concurrent, progress, semaphore, calls, tasks, github, disk,
                   cloned_all, data, lookup, manager, listing, cli, git, gw>>

\* config.get_repo_path(account_name, repo)
GetRepoPath(account_name, repo) ==
    /\ config.status = "constructed"
    /\ lookup' = Lookup(account_name, repo)
    /\ UNCHANGED <<max_concurrent, progress, semaphore, calls, tasks, github, disk,
                   cloned_all, data, config, manager, listing, cli, git, gw>>

\* the bounds GitHubClient.__init__ checks its timeout against
timeout_min == 30
timeout_max == 3600

\* GitHubClient(timeout=timeout): the client, or the ValueError of lines 41-42
GitHubClient_init(timeout) ==
    IF ~(timeout_min <= timeout /\ timeout <= timeout_max)
    THEN [raised |-> "ValueError", client |-> None, timeout |-> 0]
    ELSE [raised |-> "", client |-> "GitHubClient", timeout |-> timeout]

\* `github_client or GitHubClient(timeout=self.config.global_config.timeout)`: reading an
\* attribute that is no field of GlobalConfig raises AttributeError
default_github(github_client) ==
    IF github_client # None
    THEN [raised |-> "", client |-> github_client, timeout |-> 0]
    ELSE IF "timeout" \notin GlobalConfigFields
         THEN [raised |-> "AttributeError", client |-> None, timeout |-> 0]
         ELSE GitHubClient_init(global_config.timeout)

\* manager = RepoManager(config, github_client); github_client = None is the default
RepoManager_init(github_client) ==
    /\ config.status = "constructed"
    /\ manager.status = "none"
    /\ LET g == default_github(github_client)
       IN IF g.raised # ""
          THEN /\ manager' = [status |-> g.raised, explicit |-> github_client # None,
                              timeout |-> 0]
               /\ UNCHANGED <<github, max_concurrent, semaphore>>
          ELSE /\ manager' = [status |-> "constructed", explicit |-> github_client # None,
                              timeout |-> g.timeout]
               /\ github' = g.client
               /\ max_concurrent' = global_config.max_concurrent
               /\ semaphore' = global_config.max_concurrent
    /\ UNCHANGED <<progress, calls, tasks, disk, cloned_all, data, config, lookup,
                   listing, cli, git, gw>>

\* results[key] = value on a dict kept as its items in insertion order: a key already
\* there keeps its place and gets the new value
DictSet(d, key, value) ==
    IF \E i \in DOMAIN d : d[i].key = key
    THEN [i \in DOMAIN d |-> IF d[i].key = key THEN [key |-> key, value |-> value] ELSE d[i]]
    ELSE Append(d, [key |-> key, value |-> value])

\* the inner loop of list_repos for the a-th account: (repo_name, path, exists) per entry
account_entries(a, exists) ==
    [i \in DOMAIN accounts[a].repos |->
        LET repo == accounts[a].repos[i]
            path == get_repo_path(accounts[a].name, repo)
        IN <<repo.name, path, exists[path]>>]

\* the outer loop of list_repos from the a-th account on
RECURSIVE list_repos_loop(_, _, _)
list_repos_loop(a, results, exists) ==
    IF a > Len(accounts) THEN results
    ELSE list_repos_loop(a + 1,
                         DictSet(results, accounts[a].name, account_entries(a, exists)),
                         exists)

\* manager.list_repos(), the gateway answering exists[path] to repo_exists(path)
list_repos(exists) ==
    /\ manager.status = "constructed"
    /\ \A p \in ConfiguredPaths : exists[p] \in ExistsAnswers(p)
    /\ listing' = [called |-> TRUE,
                   results |-> list_repos_loop(1, <<>>, exists),
                   queries |-> [i \in DOMAIN AllPairs(1) |-> "repo_exists"]]
    /\ UNCHANGED <<max_concurrent, progress, semaphore, calls, tasks, github, disk,
                   cloned_all, data, config, lookup, manager, cli, git, gw>>

NextConfig ==
    \/ Construct
    \/ \E a \in AccountArgs, repo \in LookupRepos : GetRepoPath(a, repo)

SpecConfig == InitConfig /\ [][NextConfig]_vars

\* the orchestrator from a mapping: the configuration is constructed, the orchestrator is
\* constructed on it, with a gateway double or with the default gateway, and lists
NextManager ==
    \/ Construct
    \/ \E github_client \in {None, "double"} : RepoManager_init(github_client)
    \/ \E b \in BOOLEAN : list_repos([p \in ConfiguredPaths |-> b])

SpecManager == InitConfig /\ [][NextManager]_vars

(***************************************************************************)
(* The CLI sync command from the list of outcomes asyncio.run(_run_sync()) *)
(* gave it: the summary, what is echoed, and the exit code.                *)
(***************************************************************************)
MaxResults == 3     \* outcomes in the list the command summarises

\* the statuses _sync_single_repo and the result loops give an outcome
ResultStatuses == {"cloned", "updated", "up-to-date", "skipped", "error"}

\* the dict _summarize starts from
summary_start == [k \in {"cloned", "updated", "up-to-date", "error"} |-> 0]

\* the loop of _summarize: summary[result.status] += 1 raises KeyError for a status that
\* is no key of the dict
RECURSIVE summarize_loop(_, _)
summarize_loop(results, summary) ==
    IF results = <<>> THEN [raised |-> "", summary |-> summary]
    ELSE IF Head(results) \notin DOMAIN summary
         THEN [raised |-> "KeyError", summary |-> summary]
         ELSE summarize_loop(Tail(results),
                             [summary EXCEPT ![Head(results)] = @ + 1])

_summarize(results) == summarize_loop(results, summary_start)

\* the exit status of the command: 1 from typer.Exit(code=1) when an outcome is an error,
\* 1 from the interpreter when the command ends by an uncaught exception, 0 otherwise
exit_code(summarized) ==
    IF summarized.raised # "" THEN 1
    ELSE IF summarized.summary["error"] > 0 THEN 1 ELSE 0

InitCli ==
    /\ cli \in [results : SeqsUpTo(ResultStatuses, MaxResults), st : {"running"},
                 summary : {<<>>}, exit : {0}]
    /\ data = NoData
    /\ config = NoConfig
    /\ lookup = NoLookup
    /\ github = None
    /\ max_concurrent = 1
    /\ progress = TRUE
    /\ semaphore = max_concurrent
    /\ calls = [c \in CallIds |-> IdleCall]
    /\ tasks = [c \in CallIds |-> <<>>]
    /\ disk = [p \in ConfiguredPaths |-> "absent"]
    /\ cloned_all = FALSE
    /\ manager = NoManager
    /\ listing = NoListing
    /\ git = TRUE
    /\ gw = NoGw

\* the sync command after asyncio.run returned cli.results (lines 147-156)
cli_sync ==
    /\ cli.st = "running"
    /\ cli' = [cli EXCEPT !.st = IF _summarize(cli.results).raised # ""
                                 THEN _summarize(cli.results).raised ELSE "exited",
                          !.summary = _summarize(cli.results).summary,
                          !.exit = exit_code(_summarize(cli.results))]
    /\ UNCHANGED <<max_concurrent, progress, semaphore, calls, tasks, github, disk,
                   cloned_all, data, config, lookup, manager, listing, git, gw>>

NextCli == cli_sync

SpecCli == InitCli /\ [][NextCli]_vars

(***************************************************************************)
(* The GitHubClient operations on their own: one call of clone_repo,       *)
(* update_repo or has_uncommitted_changes, with what is at the path,       *)
(* whether git is installed, how the child process ends and what it        *)
(* prints. A text is the sequence of its characters.                       *)
(***************************************************************************)
\* what git pull prints when there is nothing to pull
UpToDateOut ==
    <<"A", "l", "r", "e", "a", "d", "y", " ", "u", "p", " ", "t", "o", " ", "d", "a", "t", "e", ".", "\n">>

\* the same, as older versions of git print it
UpToDateHyphenOut ==
    <<"A", "l", "r", "e", "a", "d", "y", " ", "u", "p", "-", "t", "o", "-", "d", "a", "t", "e", ".", "\n">>

\* the same in upper case
UpToDateUpperOut ==
    <<"A", "L", "R", "E", "A", "D", "Y", " ", "U", "P", " ", "T", "O", " ", "D", "A", "T", "E">>

\* what git pull prints when it pulled changes
UpdatingOut ==
    <<"U", "p", "d", "a", "t", "i", "n", "g", " ", "1", ".", ".", "2", "\n">>

\* an output with "up-to-date" but without "already"
EverythingOut ==
    <<"E", "v", "e", "r", "y", "t", "h", "i", "n", "g", " ", "u", "p", "-", "t", "o", "-", "d", "a", "t", "e", "\n">>

\* a line of git status --porcelain
StatusLineOut ==
    <<" ", "M", " ", "f", "\n">>

\* an output of white space only
BlankOut ==
    <<"\n">>

\* an error output of git
FatalErr ==
    <<"f", "a", "t", "a", "l", ":", " ", "x", "\n">>

\* an error output of white space only
BlankErr ==
    <<" ", "\n">>

\* the message _run_git_command uses when stderr is empty (line 103)
GitCommandFailed ==
    <<"g", "i", "t", " ", "c", "o", "m", "m", "a", "n", "d", " ", "f", "a", "i", "l", "e", "d">>

\* the phrases update_repo looks for (line 168)
AlreadyUpToDate ==
    <<"a", "l", "r", "e", "a", "d", "y", " ", "u", "p", " ", "t", "o", " ", "d", "a", "t", "e">>

AlreadyUpToDateHyphen ==
    <<"a", "l", "r", "e", "a", "d", "y", " ", "u", "p", "-", "t", "o", "-", "d", "a", "t", "e">>

UpperLetters ==
    <<"A", "B", "C", "D", "E", "F", "G", "H", "I", "J", "K", "L", "M",
      "N", "O", "P", "Q", "R", "S", "T", "U", "V", "W", "X", "Y", "Z">>

LowerLetters ==
    <<"a", "b", "c", "d", "e", "f", "g", "h", "i", "j", "k", "l", "m",
      "n", "o", "p", "q", "r", "s", "t", "u", "v", "w", "x", "y", "z">>

\* str.lower()
lower(text) ==
    [i \in DOMAIN text |->
        IF \E n \in DOMAIN UpperLetters : UpperLetters[n] = text[i]
        THEN LowerLetters[CHOOSE n \in DOMAIN UpperLetters : UpperLetters[n] = text[i]]
        ELSE text[i]]

\* str.strip(): the text without its leading and trailing white space
str_strip(text) ==
    LET kept == {i \in DOMAIN text : text[i] \notin {" ", "\t", "\n"}}
    IN IF kept = {} THEN <<>>
       ELSE SubSeq(text, CHOOSE i \in kept : \A j \in kept : i <= j,
                         CHOOSE i \in kept : \A j \in kept : j <= i)

\* part in text
Contains(text, part) ==
    \E i \in 1..(Len(text) - Len(part) + 1) : SubSeq(text, i, i + Len(part) - 1) = part

\* get_repo_url
get_repo_url(use_ssh, account, repo) ==
    IF use_ssh THEN <<"git@github.com:", account, "/", repo, ".git">>
    ELSE <<"https://github.com/", account, "/", repo, ".git">>

\* the outputs tried
StdoutsTried ==
    {<<>>, BlankOut, UpToDateOut, UpToDateHyphenOut, UpToDateUpperOut, UpdatingOut,
     EverythingOut, StatusLineOut}

StderrsTried == {<<>>, BlankErr, FatalErr}

\* the calls tried: the operation; what is at the path (nothing, a file, a directory
\* without .git, a repository); how the child ends if it runs; what it prints
GwCalls ==
    [pc : {"called"},
     op : {"clone_repo", "update_repo", "has_uncommitted_changes"},
     at : {"absent", "file", "dir", "repo"},
     ends : {"exit0", "nonzero", "timeout"},
     stdout : StdoutsTried, stderr : StderrsTried,
     use_ssh : BOOLEAN, timeout : {300},
     process : {"none"}, ran : {0},
     raised : {""}, message : {<<>>}, value : {FALSE}, output : {<<>>}]

gw_return(g, value, output) ==
    [g EXCEPT !.pc = "returned", !.value = value, !.output = output]

gw_raise(g, kind, message) == [g EXCEPT !.pc = "raised", !.raised = kind, !.message = message]

\* the checks update_repo, has_uncommitted_changes make before they run git: "" when
\* they pass, or the message of the UpdateError
path_check(g) ==
    IF g.at = "absent" THEN "Repository path does not exist"
    ELSE IF g.at # "repo" THEN "Path is not a git repository"
         ELSE ""

\* (mutant) a status query that times out is an error of the operation
has_uncommitted_changes_TimeoutRaises(g) ==
    IF path_check(g) # "" THEN gw_raise(g, "UpdateError", <<path_check(g)>>)
    ELSE IF ~git THEN gw_return(g, FALSE, <<>>)
    ELSE IF g.ends = "timeout"
         THEN gw_raise([g EXCEPT !.ran = 1], "UpdateError", <<"git status timed out">>)
         ELSE IF g.ends = "nonzero" THEN gw_return([g EXCEPT !.ran = 1], FALSE, <<>>)
              ELSE gw_return([g EXCEPT !.ran = 1, !.process = "reaped"],
                             str_strip(g.stdout) # <<>>, <<>>)

\* has_uncommitted_changes, a synchronous call: subprocess.run reaps the child, and kills
\* it first when the 5 seconds are over
has_uncommitted_changes(g) ==
    IF path_check(g) # "" THEN gw_raise(g, "UpdateError", <<path_check(g)>>)
    ELSE IF ~git THEN gw_return(g, FALSE, <<>>)
    ELSE IF g.ends \in {"timeout", "nonzero"}
         THEN gw_return([g EXCEPT !.ran = 1, !.process = "reaped"], FALSE, <<>>)
         ELSE gw_return([g EXCEPT !.ran = 1, !.process = "reaped"],
                        str_strip(g.stdout) # <<>>, <<>>)

\* clone_repo and update_repo up to `await self._run_git_command(...)`
async_start(g) ==
    IF g.op = "update_repo" /\ path_check(g) # ""
    THEN gw_raise(g, "UpdateError", <<path_check(g)>>)
    ELSE [g EXCEPT !.pc = "spawn"]

\* (mutant) clone_repo lets a RuntimeError of _run_git_command through
clone_repo_except_NoRuntimeError(g, exc) ==
    CASE exc.raised = "TimeoutExpired" ->
            gw_raise(g, "CloneError", <<"git clone timed out after", g.timeout, "seconds">>)
      [] OTHER -> gw_raise(g, exc.raised, exc.message)

\* the except clauses of clone_repo (lines 127-133); any other exception passes through
clone_repo_except(g, exc) ==
    CASE exc.raised = "TimeoutExpired" ->
            gw_raise(g, "CloneError", <<"git clone timed out after", g.timeout, "seconds">>)
      [] exc.raised = "RuntimeError" ->
            IF str_strip(exc.message) # <<>>
            THEN gw_raise(g, "CloneError",
                          <<"Failed to clone", get_repo_url(g.use_ssh, "alice", "r1"),
                            str_strip(exc.message)>>)
            ELSE gw_raise(g, "CloneError", <<"git clone failed">>)
      [] OTHER -> gw_raise(g, exc.raised, exc.message)

\* the except clauses of update_repo (lines 159-165)
update_repo_except(g, exc) ==
    CASE exc.raised = "TimeoutExpired" ->
            gw_raise(g, "UpdateError", <<"git pull timed out after", g.timeout, "seconds">>)
      [] exc.raised = "RuntimeError" ->
            IF str_strip(exc.message) # <<>>
            THEN gw_raise(g, "UpdateError",
                          <<"Failed to update", "path", str_strip(exc.message)>>)
            ELSE gw_raise(g, "UpdateError", <<"git pull failed">>)
      [] OTHER -> gw_raise(g, exc.raised, exc.message)

\* how an exception of _run_git_command leaves the operation
op_except(g, exc) ==
    IF g.op = "clone_repo" THEN clone_repo_except(g, exc) ELSE update_repo_except(g, exc)

\* (mutant) the output is searched as it is, upper case included
update_repo_result_CaseSensitive(g, stdout) ==
    gw_return(g, ~(Contains(stdout, AlreadyUpToDate) \/ Contains(stdout, AlreadyUpToDateHyphen)),
              stdout)

\* lines 167-169 of update_repo
update_repo_result(g, stdout) ==
    LET lowered == lower(stdout)
    IN gw_return(g, ~(Contains(lowered, AlreadyUpToDate)
                         \/ Contains(lowered, AlreadyUpToDateHyphen)),
                 stdout)

\* how the operation goes on when _run_git_command returned stdout
op_result(g, stdout) ==
    IF g.op = "clone_repo" THEN gw_return(g, FALSE, <<>>) ELSE update_repo_result(g, stdout)

\* lines 99-106 of _run_git_command: what it returns or raises once the child has exited
run_git_exited(g) ==
    LET stdout == str_strip(g.stdout)
        stderr == str_strip(g.stderr)
    IN IF g.ends = "nonzero"
       THEN [raised |-> "RuntimeError",
             message |-> IF stderr # <<>> THEN stderr ELSE GitCommandFailed,
             stdout |-> <<>>]
       ELSE [raised |-> "", message |-> <<>>, stdout |-> stdout]

\* (mutant) the timeout is raised at once, the child left running
communicate_done_NoKill(g) ==
    IF g.ends = "timeout"
    THEN op_except(g, [raised |-> "TimeoutExpired", message |-> <<>>, stdout |-> <<>>])
    ELSE LET g1 == [g EXCEPT !.process = "reaped"]
         IN IF run_git_exited(g).raised # "" THEN op_except(g1, run_git_exited(g))
            ELSE op_result(g1, run_git_exited(g).stdout)

\* lines 89-106: wait_for(process.communicate()) ends; on a timeout the child is killed
\* and `await process.wait()` is next
communicate_done(g) ==
    IF g.ends = "timeout"
    THEN [g EXCEPT !.process = "killed", !.pc = "wait"]
    ELSE LET g1 == [g EXCEPT !.process = "reaped"]
         IN IF run_git_exited(g).raised # "" THEN op_except(g1, run_git_exited(g))
            ELSE op_result(g1, run_git_exited(g).stdout)

\* the other variables, which a gateway call leaves alone
but_gw ==
    <<max_concurrent, progress, semaphore, calls, tasks, config, github, disk, cloned_all,
      data, lookup, manager, listing, cli, git>>

InitGateway ==
    /\ gw \in GwCalls
    /\ git \in BOOLEAN
    /\ data = NoData
    /\ config = NoConfig
    /\ lookup = NoLookup
    /\ github = "GitHubClient"
    /\ max_concurrent = 1
    /\ progress = FALSE
    /\ semaphore = max_concurrent
    /\ calls = [c \in CallIds |-> IdleCall]
    /\ tasks = [c \in CallIds |-> <<>>]
    /\ disk = [p \in ConfiguredPaths |-> "absent"]
    /\ cloned_all = FALSE
    /\ manager = NoManager
    /\ listing = NoListing
    /\ cli = NoCli

\* the operation is called and runs to its first await, or to its end
gw_call ==
    /\ gw.pc = "called"
    /\ gw' = IF gw.op = "has_uncommitted_changes" THEN has_uncommitted_changes(gw)
             ELSE async_start(gw)
    /\ UNCHANGED but_gw

\* lines 79-86: create_subprocess_exec; FileNotFoundError becomes GitNotFoundError
gw_spawn ==
    /\ gw.pc = "spawn"
    /\ gw' = IF ~git
             THEN op_except(gw, [raised |-> "GitNotFoundError",
                                 message |-> <<"git command not found. Please install git.">>,
                                 stdout |-> <<>>])
             ELSE [gw EXCEPT !.pc = "communicate", !.process = "running", !.ran = 1]
    /\ UNCHANGED but_gw

gw_communicate ==
    /\ gw.pc = "communicate"
    /\ gw' = communicate_done(gw)
    /\ UNCHANGED but_gw

\* lines 96-97: the killed child is reaped, then TimeoutExpired is raised
gw_wait ==
    /\ gw.pc = "wait"
    /\ gw' = op_except([gw EXCEPT !.process = "reaped"],
                       [raised |-> "TimeoutExpired", message |-> <<>>, stdout |-> <<>>])
    /\ UNCHANGED but_gw

NextGateway ==
    \/ gw_call
    \/ gw_spawn
    \/ gw_communicate
    \/ gw_wait

SpecGateway == InitGateway /\ [][NextGateway]_vars

(***************************************************************************)
(* Vocabulary of the properties.                                           *)
(***************************************************************************)
TaskIds == {ck \in CallIds \X (1..MaxTasks) : ck[2] \in DOMAIN tasks[ck[1]]}

TaskAt(ck) == tasks[ck[1]][ck[2]]

Batch(c) == calls[c].kind \in {"sync_all", "sync_account"}

Returned(c) == calls[c].st = "returned"

UnknownLabel(c) == IF calls[c].kind = "sync_all" THEN "unknown" ELSE calls[c].account_name

\* inside the exists / status / clone / update phase
InPhase(t) == t.pc \in {"await_changes", "await_update", "await_clone"}

NumInPhase == Cardinality({ck \in TaskIds : InPhase(TaskAt(ck))})

\* a clone or update in flight
InOperation(t) == t.pc \in {"await_update", "await_clone"}

\* what the call reports for its k-th repository: the task's SyncResult, or the error
\* outcome standing for the failure that ended the task
TaskOutcome(c, k) ==
    LET r == tasks[c][k].result
    IN IF r.kind = "SyncResult" THEN r
       ELSE SyncResult(UnknownLabel(c), "unknown", "error", r.message, <<".">>)

\* the state machine of section 4.3, from the gateway's answers alone: what the task
\* ends with when the progress sink has no say
GatewayOutcome(t) ==
    LET path == get_repo_path(t.account, t.repo)
        out(status, message) == SyncResult(t.account, t.repo.name, status, message, path)
    IN CASE t.ex = "none" -> Raised("Exception", AttributeError)
         [] t.ex = "no" /\ t.op = "ok" -> out("cloned", <<>>)
         [] t.ex = "no" /\ t.op = "exc" -> out("error", <<"clone failed">>)
         [] t.ex = "yes" /\ t.dirty = "yes" -> out("skipped", SkippedMessage(t))
         [] t.ex = "yes" /\ t.dirty = "exc" -> out("error", <<"status failed">>)
         [] t.ex = "yes" /\ t.dirty = "no" /\ t.op = "changed" ->
               out("updated", <<"stdout", "changed">>)
         [] t.ex = "yes" /\ t.dirty = "no" /\ t.op = "unchanged" ->
               out("up-to-date", <<"stdout", "unchanged">>)
         [] t.ex = "yes" /\ t.dirty = "no" /\ t.op = "exc" -> out("error", <<"pull failed">>)
         [] OTHER -> Raised("CancelledError", <<>>)

(***************************************************************************)
(* C1.  At most max_concurrent repositories are inside their exists /      *)
(* status / clone / update phase, over all the sync_all, sync_account and  *)
(* sync_repo calls in flight on the instance; with max_concurrent = 1 no   *)
(* two clone or update operations overlap.                                 *)
(***************************************************************************)
C1_ConcurrencyBound ==
    /\ NumInPhase <= max_concurrent
    /\ max_concurrent = 1 =>
          \A x, y \in TaskIds : InOperation(TaskAt(x)) /\ InOperation(TaskAt(y)) => x = y

\* two permits, both taken by repositories of two different calls, a third task waiting
C1_Witness ==
    /\ max_concurrent = 2
    /\ NumInPhase = 2
    /\ \E x, y, z \in TaskIds :
          /\ x[1] # y[1]
          /\ calls[x[1]].kind # calls[y[1]].kind
          /\ InOperation(TaskAt(x)) /\ InPhase(TaskAt(y))
          /\ TaskAt(z).pc = "acquire"

(***************************************************************************)
(* C2.  A batch call returns exactly one outcome per requested repository, *)
(* whatever ended each task (a structured error, an unclassified           *)
(* exception, the cancellation of the task).                               *)
(***************************************************************************)
C2_CompleteList ==
    \A c \in CallIds : Batch(c) /\ Returned(c) => Len(calls[c].ret) = Len(tasks[c])

(***************************************************************************)
(* C3.  In a batch where the clone or update of one repository raised, the *)
(* call returns (never raises) exactly N outcomes, that repository's       *)
(* outcome has status "error", and every other repository has its own      *)
(* outcome.                                                                *)
(***************************************************************************)
C3_FailureContained ==
    \A c \in CallIds :
       /\ Batch(c) /\ Len(tasks[c]) > 0 => calls[c].st # "raised"
       /\ Batch(c) /\ Returned(c) =>
             \A k \in DOMAIN tasks[c] :
                tasks[c][k].op \in {"exc", "cancelled"} =>
                   /\ Len(calls[c].ret) = Len(tasks[c])
                   /\ calls[c].ret[k].status = "error"
                   /\ \A j \in DOMAIN tasks[c] : j # k => calls[c].ret[j] = TaskOutcome(c, j)

(***************************************************************************)
(* C4.  The i-th element of the list a batch call returns is the outcome   *)
(* of the i-th (account, repository) pair of the enumeration, whatever     *)
(* the order in which the tasks completed.                                 *)
(***************************************************************************)
C4_EnumerationOrder ==
    \A c \in CallIds :
       Batch(c) /\ Returned(c) =>
          \A i \in DOMAIN tasks[c] :
             /\ i \in DOMAIN calls[c].ret
             /\ calls[c].ret[i] = TaskOutcome(c, i)

(***************************************************************************)
(* C5.  Once sync_repo has found the account and the repository it never   *)
(* raises: whatever fails is returned as a SyncResult.                     *)
(***************************************************************************)
C5_SyncRepoNeverRaises ==
    \A c \in CallIds :
       calls[c].kind = "sync_repo" /\ Len(tasks[c]) = 1 =>
          /\ calls[c].st # "raised"
          /\ tasks[c][1].pc = "done" => tasks[c][1].result.kind = "SyncResult"

(***************************************************************************)
(* C6.  When the progress sink raised for one repository of a batch, the   *)
(* batch call still returns, and every other repository of the batch (one  *)
(* the sink did not raise for) was synced and has the outcome the gateway's*)
(* answers give it, reported in the returned list; the failed sink call    *)
(* holds no permit back.                                                   *)
(***************************************************************************)
C6_SinkFailureContained ==
    \A c \in CallIds :
       /\ Batch(c) /\ Len(tasks[c]) > 0 => calls[c].st # "raised"
       /\ \A i, j \in DOMAIN tasks[c] :
             /\ i # j
             /\ tasks[c][i].pc = "done" /\ tasks[c][i].sink_raised
             /\ ~tasks[c][j].sink_raised
             => /\ ~tasks[c][i].holding
                /\ tasks[c][j].pc = "acquire" /\ NumInPhase = 0 => CanAcquire
                /\ Batch(c) /\ Returned(c) =>
                      /\ tasks[c][j].result = GatewayOutcome(tasks[c][j])
                      /\ tasks[c][j].result.kind = "SyncResult" =>
                            \E m \in DOMAIN calls[c].ret : calls[c].ret[m] = tasks[c][j].result

\* a returned sync_all: the sink raised for r1, and r2 after it was cloned all the same
C6_Witness ==
    \E c \in CallIds :
       /\ calls[c].kind = "sync_all" /\ Returned(c)
       /\ tasks[c][1].sink_raised
       /\ ~tasks[c][2].sink_raised
       /\ tasks[c][2].result.status = "cloned"
       /\ \E m \in DOMAIN calls[c].ret : calls[c].ret[m] = tasks[c][2].result

(***************************************************************************)
(* C7.  An exception raised by the progress sink is ignored at the call    *)
(* site: whatever the sink does at any emission point, the task makes the  *)
(* gateway calls and ends with the outcome that the gateway's answers      *)
(* determine.                                                              *)
(***************************************************************************)
C7_SinkIgnored ==
    \A ck \in TaskIds :
       LET t == TaskAt(ck)
       IN t.pc = "done" /\ t.events # <<>> =>
             /\ t.made.repo_exists = 1
             /\ t.ex = "yes" => t.made.has_uncommitted_changes = 1
             /\ t.ex = "yes" /\ t.dirty = "no" => t.made.update_repo = 1
             /\ t.ex = "no" => t.made.clone_repo = 1
             /\ t.result = GatewayOutcome(t)

(***************************************************************************)
(* C8.  When the gateway reports the repository absent, clone is invoked   *)
(* exactly once, has_uncommitted_changes and update never, and a clone     *)
(* that returns normally yields status "cloned".                           *)
(***************************************************************************)
C8_AbsentIsCloned ==
    \A ck \in TaskIds :
       LET t == TaskAt(ck)
       IN t.ex = "no" =>
             /\ t.made.clone_repo = 1
             /\ t.made.has_uncommitted_changes = 0
             /\ t.made.update_repo = 0
             /\ t.pc = "done" /\ t.op = "ok" =>
                   t.result.kind = "SyncResult" /\ t.result.status = "cloned"

(***************************************************************************)
(* C9.  When the gateway reports the repository present with uncommitted   *)
(* changes, the outcome is "skipped" with a message naming the uncommitted *)
(* changes, and neither update nor clone is invoked.                       *)
(***************************************************************************)
C9_DirtyIsSkipped ==
    \A ck \in TaskIds :
       LET t == TaskAt(ck)
       IN t.ex = "yes" /\ t.dirty = "yes" =>
             /\ t.made.update_repo = 0
             /\ t.made.clone_repo = 0
             /\ t.pc = "done" =>
                   /\ t.result.kind = "SyncResult"
                   /\ t.result.status = "skipped"
                   /\ t.result.message = SkippedMessage(t)

(***************************************************************************)
(* C10.  When the gateway reports the repository present and clean, update *)
(* is invoked exactly once and clone never; the outcome is "up-to-date"    *)
(* when update reports no change and "updated" when it reports a change.   *)
(***************************************************************************)
C10_CleanIsUpdated ==
    \A ck \in TaskIds :
       LET t == TaskAt(ck)
       IN t.ex = "yes" /\ t.dirty = "no" =>
             /\ t.made.clone_repo = 0
             /\ t.made.update_repo <= 1
             /\ t.pc = "done" =>
                   /\ t.made.update_repo = 1
                   /\ t.op = "unchanged" =>
                         t.result.kind = "SyncResult" /\ t.result.status = "up-to-date"
                   /\ t.op = "changed" =>
                         t.result.kind = "SyncResult" /\ t.result.status = "updated"

(***************************************************************************)
(* C11.  After a sync_all whose outcomes were all "cloned" (every          *)
(* repository was absent, every clone succeeded), a later sync_all on the  *)
(* same configuration, the repositories being clean and without new        *)
(* commits, returns the same number of outcomes, all "up-to-date", and     *)
(* invokes clone for no repository.                                        *)
(***************************************************************************)
\* nothing the gateway answered to the tasks of call c says dirty, changed or failed
CleanAndCurrent(c) ==
    \A k \in DOMAIN tasks[c] :
       /\ tasks[c][k].dirty \notin {"yes", "exc"}
       /\ tasks[c][k].op \notin {"changed", "exc"}

C11_SecondSyncUpToDate ==
    \A c \in CallIds :
       cloned_all /\ calls[c].kind = "sync_all" /\ Returned(c) /\ CleanAndCurrent(c) =>
          /\ Len(calls[c].ret) = Len(AllPairs(1))
          /\ \A m \in DOMAIN calls[c].ret : calls[c].ret[m].status = "up-to-date"
          /\ \A k \in DOMAIN tasks[c] : tasks[c][k].made.clone_repo = 0

(***************************************************************************)
(* C12.  sync_account with a name that is no configured account fails with *)
(* the not-found error (ValueError) before any work starts: the call       *)
(* creates no task, so takes no permit, makes no gateway call and emits no *)
(* progress event.                                                         *)
(***************************************************************************)
C12_UnknownAccountNoWork ==
    [][\A c \in CallIds :
          /\ calls[c].st = "idle"
          /\ calls'[c].kind = "sync_account"
          /\ AccountIndex(calls'[c].account_name) = 0
          => /\ calls'[c].st = "raised" /\ calls'[c].exc = "ValueError"
             /\ tasks' = tasks
             /\ semaphore' = semaphore
             /\ disk' = disk]_vars

\* sync_account("carol") has failed while a repository of another call holds a permit
C12_Witness ==
    \E c, d \in CallIds :
       /\ calls[c].kind = "sync_account" /\ calls[c].st = "raised"
       /\ calls[c].exc = "ValueError" /\ calls[c].account_name = "carol"
       /\ tasks[c] = <<>>
       /\ \E k \in DOMAIN tasks[d] : tasks[d][k].holding

(***************************************************************************)
(* C13.  sync_repo with an unknown account, or with a known account and a  *)
(* repository name that is not configured under it, fails with the         *)
(* not-found error (ValueError) before any work starts: no task, no        *)
(* permit, no gateway call, no progress event.                             *)
(***************************************************************************)
C13_UnknownRepoNoWork ==
    [][\A c \in CallIds, a \in AccountArgs, r \in RepoArgs :
          /\ sync_repo(c, a, r)
          /\ AccountIndex(a) = 0 \/ RepoIndex(AccountIndex(a), r) = 0
          => /\ calls'[c].kind = "sync_repo"
             /\ calls'[c].st = "raised" /\ calls'[c].exc = "ValueError"
             /\ tasks' = tasks
             /\ semaphore' = semaphore
             /\ disk' = disk]_vars

\* sync_repo("alice", "r3") has failed (r3 is bob's) beside a failed sync_repo("carol", ...)
C13_Witness ==
    \E c, d \in CallIds :
       /\ calls[c].kind = "sync_repo" /\ calls[c].st = "raised" /\ calls[c].exc = "ValueError"
       /\ calls[c].account_name = "alice" /\ calls[c].repo_name = "r3"
       /\ calls[d].kind = "sync_repo" /\ calls[d].st = "raised" /\ calls[d].exc = "ValueError"
       /\ calls[d].account_name = "carol"
       /\ tasks[c] = <<>> /\ tasks[d] = <<>>

(***************************************************************************)
(* C14.  Every permit taken for a repository is given back when its        *)
(* attempt ends, whatever the end (cloned, updated, up-to-date, skipped,   *)
(* error, a timed-out git command, an exception escaping the task); once   *)
(* every sync call has returned, max_concurrent permits are free again.    *)
(***************************************************************************)
NumHolding == Cardinality({ck \in TaskIds : TaskAt(ck).holding})

C14_PermitsReleased ==
    /\ semaphore + NumHolding = max_concurrent
    /\ \A ck \in TaskIds : TaskAt(ck).pc = "done" => ~TaskAt(ck).holding
    /\ (\A c \in CallIds : calls[c].st # "running") => semaphore = max_concurrent

\* a returned sync_all: r1's clone raised, the sink raised for r2 while it held a permit,
\* no call is running and every permit is free
C14_Witness ==
    /\ \A c \in CallIds : calls[c].st # "running"
    /\ semaphore = max_concurrent
    /\ \E c \in CallIds :
          /\ calls[c].kind = "sync_all" /\ Returned(c)
          /\ tasks[c][1].op = "exc" /\ tasks[c][1].result.status = "error"
          /\ tasks[c][2].made.repo_exists = 1 /\ tasks[c][2].sink_raised
          /\ tasks[c][2].result.kind = "Exception"

(***************************************************************************)
(* C15.  With a progress sink, every outcome with status "error" that a    *)
(* sync call returns was preceded by an "error" event naming the           *)
(* repository (account/repo) and carrying the failure message.             *)
(***************************************************************************)
C15_ErrorEventBeforeErrorOutcome ==
    progress =>
       \A c \in CallIds :
          Returned(c) =>
             \A m \in DOMAIN calls[c].ret :
                calls[c].ret[m].status = "error" =>
                   \E k \in DOMAIN tasks[c] :
                      \E e \in DOMAIN tasks[c][k].events :
                         /\ tasks[c][k].events[e].level = "error"
                         /\ tasks[c][k].events[e].message =
                               <<"Failed", tasks[c][k].account, tasks[c][k].repo.name>>
                                  \o calls[c].ret[m].message

(***************************************************************************)
(* C16.  With a progress sink, the first event emitted for a repository is *)
(* the "info" event "Syncing {account}/{repo}", and it is emitted before   *)
(* any gateway operation (repo_exists, has_uncommitted_changes, clone_repo,*)
(* update_repo) is invoked for that repository: no gateway call without    *)
(* the event, and none when the sink raised on it.                         *)
(***************************************************************************)
SyncingEvent(t) == [level |-> "info", message |-> <<"Syncing", t.account, t.repo.name>>]

GatewayCalls(t) ==
    t.made.repo_exists + t.made.has_uncommitted_changes
       + t.made.clone_repo + t.made.update_repo

C16_SyncingFirst ==
    progress =>
       \A ck \in TaskIds :
          LET t == TaskAt(ck)
          IN /\ t.events # <<>> => t.events[1] = SyncingEvent(t)
             /\ GatewayCalls(t) > 0 => t.events # <<>>
             /\ Len(t.events) = 1 /\ t.sink_raised => GatewayCalls(t) = 0

\* a cloned repository whose events are "Syncing" then "Cloned", beside a repository
\* for which the sink raised on "Syncing"
C16_Witness ==
    /\ progress
    /\ \E x, y \in TaskIds :
          /\ TaskAt(x).result.status = "cloned"
          /\ Len(TaskAt(x).events) = 2
          /\ TaskAt(x).events[1] = SyncingEvent(TaskAt(x))
          /\ TaskAt(x).made.repo_exists = 1 /\ TaskAt(x).made.clone_repo = 1
          /\ Len(TaskAt(y).events) = 1 /\ TaskAt(y).sink_raised

(***************************************************************************)
(* C17.  In the list sync_all returns, an outcome is labelled "unknown"    *)
(* only if the account and repository of its task could not be determined  *)
(* before the failure: the pair of every task is known from the            *)
(* enumeration, so the unexpected failure of a task yields an error        *)
(* outcome carrying the task's account and repository.                     *)
(***************************************************************************)
C17_UnknownOnlyIfUndetermined ==
    \A c \in CallIds :
       calls[c].kind = "sync_all" /\ Returned(c) =>
          \A k \in DOMAIN tasks[c] :
             tasks[c][k].result.kind = "Exception" =>
                \E m \in DOMAIN calls[c].ret :
                   /\ calls[c].ret[m].status = "error"
                   /\ calls[c].ret[m].message = tasks[c][k].result.message
                   /\ calls[c].ret[m].account = tasks[c][k].account
                   /\ calls[c].ret[m].repo = tasks[c][k].repo.name

(***************************************************************************)
(* C18.  For a constructed configuration, a configured account and a       *)
(* repository entry, get_repo_path returns the entry's local_dir override  *)
(* when it has one, whatever the base directories, and otherwise           *)
(* (account.base_dir if set, else global.base_dir) / account.name /        *)
(* repository.name.                                                        *)
(***************************************************************************)
Looked == lookup # NoLookup

C18_ResolutionOrder ==
    Looked /\ AccountIndex(lookup.account) # 0 =>
       LET acct == accounts[AccountIndex(lookup.account)]
       IN /\ lookup.raised = ""
          /\ lookup.repo.local_dir # None => lookup.path = <<lookup.repo.local_dir>>
          /\ lookup.repo.local_dir = None /\ acct.base_dir # None =>
                lookup.path = <<acct.base_dir, lookup.account, lookup.repo.name>>
          /\ lookup.repo.local_dir = None /\ acct.base_dir = None =>
                lookup.path = <<global_config.base_dir, lookup.account, lookup.repo.name>>

\* bob has his own base directory: a record entry without override resolves under it
C18_Witness ==
    /\ Looked /\ lookup.account = "bob"
    /\ lookup.repo = RepoConfig("r1", None)
    /\ lookup.path = <<"/home/user/work", "bob", "r1">>
    /\ global_config.base_dir = "/srv"

(***************************************************************************)
(* C19.  get_repo_path fails with the not-found error (ValueError)         *)
(* whenever the account name is not that of a configured account, also     *)
(* when the repository entry carries a local_dir override.                 *)
(***************************************************************************)
C19_UnknownAccountRaises ==
    Looked /\ (\A i \in DOMAIN accounts : accounts[i].name # lookup.account) =>
       lookup.raised = "ValueError" /\ lookup.path = <<>>

\* an unknown account with an entry that has an override
C19_Witness ==
    /\ Looked /\ lookup.account = "carol"
    /\ lookup.repo = RepoConfig("r1", "/opt/r1")
    /\ lookup.raised = "ValueError"
    /\ Len(accounts) = 2

(***************************************************************************)
(* C20.  Constructing a configuration fails with a validation error when   *)
(* two accounts have the same name, or when two repository entries of one  *)
(* account (bare or record form, in any mix) have the same name: every     *)
(* constructed configuration has pairwise distinct account names and, per  *)
(* account, pairwise distinct repository names.                            *)
(***************************************************************************)
C20_DistinctNames ==
    config.status = "constructed" =>
       /\ \A i, j \in DOMAIN accounts : accounts[i].name = accounts[j].name => i = j
       /\ \A a \in DOMAIN accounts :
             \A i, j \in DOMAIN accounts[a].repos :
                accounts[a].repos[i].name = accounts[a].repos[j].name => i = j

\* the single repository item of a mapping with one account and one item
OneItem == data.accounts[1].repos[1]

HasOneItem == Len(data.accounts) = 1 /\ Len(data.accounts[1].repos) = 1

\* every character of the name is of the class [A-Za-z0-9._-], and there is at least one
IsPatternName(name) ==
    /\ Chars(name) # <<>>
    /\ \A i \in DOMAIN Chars(name) : Chars(name)[i] \in _REPO_NAME_PATTERN

HasForbiddenChar(name) ==
    \E i \in DOMAIN Chars(name) : Chars(name)[i] \in {"/", "@", " ", "\t", "\n"}

Validated == config.status \in {"constructed", "ValidationError"}

(* C21. Constructing the entry of a repository, as a bare name or as a     *)
(* record, succeeds for every name made of characters of [A-Za-z0-9._-]    *)
(* only, and fails for the empty name and for every name that contains     *)
(* '/', '@' or a whitespace character, a single trailing newline included. *)
C21_NameValidation ==
    (Validated /\ HasOneItem /\ GlobalConfig_valid(data.global)) =>
        /\ IsPatternName(OneItem.name) => config.status = "constructed"
        /\ (OneItem.name = "" \/ HasForbiddenChar(OneItem.name)) =>
               config.status = "ValidationError"

(* C22. A repository entry may carry a remote_name, which must satisfy the *)
(* same name pattern as name: a record whose remote_name is not a valid    *)
(* name fails construction, and one whose name and remote_name are valid   *)
(* names is constructed and keeps its remote_name for the clone.           *)
C22_RemoteNameValidated ==
    (Validated /\ HasOneItem /\ OneItem.form = "dict" /\ OneItem.remote_name # None) =>
        /\ ~_validate_repo_name(OneItem.remote_name) => config.status = "ValidationError"
        /\ config.status = "constructed" =>
               "remote_name" \in DOMAIN config.accounts[1].repos[1]

(* C23. Constructing the global settings fails for every max_concurrent    *)
(* below 1 or above 20 and succeeds for every integer from 1 to 20 (the    *)
(* rest of the mapping being valid), so the permit pool of every           *)
(* orchestrator has between 1 and 20 permits, as many as max_concurrent.   *)
C23_MaxConcurrentBounds ==
    /\ (Validated /\ data.global.max_concurrent \notin 1..20) =>
           config.status = "ValidationError"
    /\ (Validated /\ data.global.max_concurrent \in 1..20
          /\ HasOneItem /\ OneItem = StrItem("r1")) => config.status = "constructed"
    /\ manager.status = "constructed" =>
           /\ semaphore \in 1..20
           /\ semaphore = data.global.max_concurrent

C23_Witness ==
    /\ data.global.max_concurrent = 20
    /\ manager.status = "constructed"
    /\ semaphore = 20

(* C24. Constructing the global settings fails for every timeout below 30  *)
(* or above 3600: a configuration whose timeout is out of range is         *)
(* rejected, so no orchestrator is ever built on one.                      *)
C24_TimeoutBounds ==
    /\ (Validated /\ data.global.timeout \notin 30..3600) =>
           config.status = "ValidationError"
    /\ manager.status = "constructed" => data.global.timeout \in 30..3600

(* C25. The CLI sync command exits with code 0 whenever no outcome it got  *)
(* has status "error" (any mix of cloned, updated, up-to-date and skipped) *)
(* and with code 1 whenever at least one outcome has status "error".       *)
C25_ExitCode ==
    cli.st \notin {"none", "running"} =>
        IF \E i \in DOMAIN cli.results : cli.results[i] = "error"
        THEN cli.exit = 1
        ELSE cli.exit = 0

\* the k-th item of what list_repos returned is for the a-th configured account: one
\* (repo_name, resolved_path, exists) per configured repository, in configuration order
ListedAt(k, a) ==
    /\ listing.results[k].key = accounts[a].name
    /\ DOMAIN listing.results[k].value = DOMAIN accounts[a].repos
    /\ \A i \in DOMAIN accounts[a].repos :
          /\ listing.results[k].value[i][1] = accounts[a].repos[i].name
          /\ listing.results[k].value[i][2] = get_repo_path(accounts[a].name, accounts[a].repos[i])
          /\ listing.results[k].value[i][3] \in BOOLEAN

(* C26. list_repos returns, for every configured account, one entry        *)
(* (repo_name, resolved_path, exists) per configured repository, in        *)
(* configuration order; it makes only the gateway's exists query, takes no *)
(* permit and leaves the orchestrator and the filesystem as they were.     *)
C26_ListRepos ==
    listing.called =>
        /\ \A a \in DOMAIN accounts : \E k \in DOMAIN listing.results : ListedAt(k, a)
        /\ \A k1, k2 \in DOMAIN listing.results :
               k1 < k2 => AccountIndex(listing.results[k1].key)
                              < AccountIndex(listing.results[k2].key)
        /\ \A q \in DOMAIN listing.queries : listing.queries[q] = "repo_exists"
        /\ semaphore = max_concurrent
        /\ \A c \in CallIds : calls[c] = IdleCall /\ tasks[c] = <<>>
        /\ \A p \in DOMAIN disk : disk[p] = "absent"

(* C27. An orchestrator constructed without an explicit gateway creates    *)
(* the default gateway with the timeout configured in the global settings  *)
(* (a global timeout of 123 gives a gateway built with timeout=123), and   *)
(* the construction succeeds.                                              *)
C27_DefaultGatewayTimeout ==
    (manager.status # "none" /\ ~manager.explicit) =>
        /\ manager.status = "constructed"
        /\ github = "GitHubClient"
        /\ manager.timeout = data.global.timeout

(* C28. The per-repository state machine: an outcome "cloned" implies that *)
(* exists answered false and clone was invoked; "skipped" implies that     *)
(* exists answered true and has_uncommitted_changes answered true;         *)
(* "updated" and "up-to-date" imply that exists answered true, the check   *)
(* for changes answered false and update was invoked; and the status of an *)
(* outcome is always cloned, updated, up-to-date, skipped or error.        *)
C28_StateMachine ==
    /\ \A ck \in TaskIds :
          LET t == TaskAt(ck)
          IN t.result.kind = "SyncResult" =>
                /\ t.result.status \in {"cloned", "updated", "up-to-date", "skipped", "error"}
                /\ t.result.status = "cloned" =>
                      t.ex = "no" /\ t.made.clone_repo = 1 /\ t.made.update_repo = 0
                /\ t.result.status = "skipped" =>
                      t.ex = "yes" /\ t.dirty = "yes" /\ t.made.has_uncommitted_changes = 1
                /\ t.result.status \in {"updated", "up-to-date"} =>
                      /\ t.ex = "yes" /\ t.dirty = "no"
                      /\ t.made.update_repo = 1 /\ t.made.clone_repo = 0
    /\ \A c \in CallIds : \A m \in DOMAIN calls[c].ret :
          calls[c].ret[m].status \in {"cloned", "updated", "up-to-date", "skipped", "error"}

\* one call whose repositories ended cloned and skipped, and a returned outcome updated
C28_Witness ==
    /\ \E c \in CallIds : \E k1, k2 \in DOMAIN tasks[c] :
          /\ tasks[c][k1].result.status = "cloned"
          /\ tasks[c][k2].result.status = "skipped"
    /\ \E c \in CallIds : \E m \in DOMAIN calls[c].ret :
          calls[c].ret[m].status \in {"updated", "up-to-date"}

(* C29. No retry: within one sync call, for each requested repository,     *)
(* clone and update are invoked at most once in total (never both, never   *)
(* the same one twice), also when the operation fails or times out.        *)
C29_NoRetry ==
    \A ck \in TaskIds :
       TaskAt(ck).made.clone_repo + TaskAt(ck).made.update_repo <= 1

\* a clone that failed and an update that failed, each invoked once, their tasks ended
C29_Witness ==
    \E x, y \in TaskIds :
       /\ TaskAt(x).pc = "done" /\ TaskAt(x).op = "exc" /\ TaskAt(x).made.clone_repo = 1
       /\ TaskAt(x).result.status = "error"
       /\ TaskAt(y).pc = "done" /\ TaskAt(y).op = "exc" /\ TaskAt(y).made.update_repo = 1
       /\ TaskAt(y).result.status = "error"

\* the task has not taken its permit yet
BeforePermit(t) == t.pc \in {"created", "acquire"}

\* the step makes a gateway call or emits a progress event for the task at ck
ActsFor(ck) ==
    /\ ck[2] \in DOMAIN tasks'[ck[1]]
    /\ \/ GatewayCalls(tasks'[ck[1]][ck[2]]) > GatewayCalls(TaskAt(ck))
       \/ Len(tasks'[ck[1]][ck[2]].events) > Len(TaskAt(ck).events)

(* C30. Every gateway operation for a repository (exists, has_uncommitted_ *)
(* changes, clone, update) and every progress event for it happens while   *)
(* the repository's task holds a permit: a task that has not taken its     *)
(* permit has made no gateway call and emitted no event, a task inside a   *)
(* gateway operation holds a permit, and a step that makes a call or emits *)
(* an event is made by a holder or is the step that takes a free permit.   *)
C30_UnderPermit ==
    [][/\ \A ck \in TaskIds :
             ActsFor(ck) =>
                \/ TaskAt(ck).holding
                \/ TaskAt(ck).pc = "acquire" /\ semaphore > 0
       /\ \A c \in CallIds : \A k \in DOMAIN tasks'[c] :
             /\ BeforePermit(tasks'[c][k]) =>
                   /\ ~tasks'[c][k].holding
                   /\ GatewayCalls(tasks'[c][k]) = 0
                   /\ tasks'[c][k].events = <<>>
             /\ InPhase(tasks'[c][k]) => tasks'[c][k].holding]_vars

\* a holder inside a gateway operation with its event emitted, while another task that
\* has resolved its path waits for a permit, having done nothing else
C30_Witness ==
    /\ semaphore = 0
    /\ progress
    /\ \E x, y \in TaskIds :
          /\ InPhase(TaskAt(x)) /\ TaskAt(x).holding
          /\ TaskAt(x).events # <<>> /\ GatewayCalls(TaskAt(x)) > 0
          /\ TaskAt(y).pc = "acquire" /\ TaskAt(y).path # <<>>
          /\ TaskAt(y).events = <<>> /\ GatewayCalls(TaskAt(y)) = 0

\* a raw path that is an empty or blank string
IsBlank(value) == value \in {"", " ", "\t"}

Omitted(value) == IF IsBlank(value) THEN None ELSE value

\* the mapping with every blank base_dir of an account and local_dir of an item left out
BlanksOmitted(d) ==
    [d EXCEPT !.accounts =
        [i \in DOMAIN d.accounts |->
            [d.accounts[i] EXCEPT
                !.base_dir = Omitted(@),
                !.repos = [j \in DOMAIN d.accounts[i].repos |->
                              [d.accounts[i].repos[j] EXCEPT !.local_dir = Omitted(@)]]]]]

(* C40. An empty or blank path string given for a repository's local_dir   *)
(* or an account's base_dir is treated as not set: the configuration is    *)
(* the one constructed from the mapping without these fields, so every     *)
(* path resolves through the next tier (account base_dir, then global      *)
(* base_dir) as if the field had been omitted.                             *)
C40_BlankIsNotSet ==
    /\ Validated => config = model_validate(BlanksOmitted(data))
    /\ (Validated /\ config.status = "constructed") =>
          \A i \in DOMAIN accounts :
             /\ IsBlank(data.accounts[i].base_dir) => accounts[i].base_dir = None
             /\ \A j \in DOMAIN accounts[i].repos :
                   IsBlank(data.accounts[i].repos[j].local_dir) =>
                      get_repo_path(accounts[i].name, accounts[i].repos[j])
                         = get_repo_path(accounts[i].name, BareRepo(accounts[i].repos[j].name))

\* a blank local_dir in an account with a blank base_dir: the path is under the global one
C40_Witness ==
    /\ config.status = "constructed"
    /\ HasOneItem
    /\ data.accounts[1].base_dir = " "
    /\ OneItem.form = "dict" /\ OneItem.local_dir = ""
    /\ Looked /\ lookup.repo = accounts[1].repos[1]
    /\ lookup.path = <<"/home/user/code", "alice", "r1">>

\* the entries of the configuration, by position
Entries == {e \in (DOMAIN accounts) \X (1..MaxRepos) : e[2] \in DOMAIN accounts[e[1]].repos}

EntryAt(e) == accounts[e[1]].repos[e[2]]

HasOverride(repo) == isinstance_RepoConfig(repo) /\ repo.local_dir # None

(* C34. In every constructed configuration, two distinct (account,         *)
(* repository) entries without local_dir override resolve to distinct      *)
(* paths, so the tasks sync_all creates for them never work on the same    *)
(* destination path.                                                       *)
C34_DistinctPaths ==
    config.status = "constructed" =>
        \A x, y \in Entries :
           (x # y /\ ~HasOverride(EntryAt(x)) /\ ~HasOverride(EntryAt(y))) =>
               get_repo_path(accounts[x[1]].name, EntryAt(x))
                  # get_repo_path(accounts[y[1]].name, EntryAt(y))

\* the gateway call has ended
GwDone == gw.pc \in {"returned", "raised"}

\* the first words of the messages of a timeout
TimedOutMarks == {"git clone timed out after", "git pull timed out after"}

(* C35. clone_repo classifies every failure: when git is not installed it  *)
(* raises GitNotFoundError; on a nonzero exit it raises CloneError with    *)
(* the command's stderr in its message, or with a generic message when     *)
(* stderr is empty; on a timeout it raises CloneError; and for these three *)
(* causes nothing but GitNotFoundError or CloneError leaves clone_repo.    *)
C35_CloneFailures ==
    (gw.op = "clone_repo" /\ GwDone) =>
        /\ ~git => gw.raised = "GitNotFoundError"
        /\ (git /\ gw.ends = "nonzero") =>
              /\ gw.raised = "CloneError"
              /\ gw.message[3] # <<>>
              /\ IF gw.stderr \in {<<>>, BlankErr}
                 THEN gw.message[3] = GitCommandFailed
                 ELSE Contains(gw.stderr, gw.message[3])
                         /\ Len(gw.message[3]) >= Len(gw.stderr) - 1
        /\ (git /\ gw.ends = "timeout") => gw.raised = "CloneError"
        /\ (git /\ gw.ends = "exit0") => gw.pc = "returned"
        /\ gw.raised \in {"", "GitNotFoundError", "CloneError"}

C35_Witness ==
    /\ gw.op = "clone_repo" /\ gw.pc = "raised"
    /\ gw.ends = "nonzero" /\ gw.stderr = FatalErr
    /\ gw.raised = "CloneError"

(* C36. When a clone or a pull exceeds the timeout, the child process is   *)
(* killed and reaped before the error is surfaced, and the error is a      *)
(* CloneError or UpdateError that says it timed out, which tells it apart  *)
(* from the error of a nonzero exit.                                       *)
C36_TimeoutKillsChild ==
    (gw.op \in {"clone_repo", "update_repo"} /\ GwDone /\ gw.ran = 1) =>
        /\ gw.process = "reaped"
        /\ gw.ends = "timeout" =>
              /\ gw.raised = (IF gw.op = "clone_repo" THEN "CloneError" ELSE "UpdateError")
              /\ gw.message[1] \in TimedOutMarks
              /\ gw.message[2] = gw.timeout
        /\ gw.ends = "nonzero" =>
              /\ gw.raised = (IF gw.op = "clone_repo" THEN "CloneError" ELSE "UpdateError")
              /\ gw.message[1] \notin TimedOutMarks

C36_Witness ==
    /\ gw.op = "update_repo" /\ gw.pc = "raised"
    /\ gw.ends = "timeout" /\ gw.process = "reaped"
    /\ gw.raised = "UpdateError" /\ gw.message[1] = "git pull timed out after"

\* the outputs tried that hold "already up to date" or "already up-to-date" in some case
UpToDateOutputs == {UpToDateOut, UpToDateHyphenOut, UpToDateUpperOut}

(* C37. For a successful pull, update_repo returns changed = false if and  *)
(* only if the output contains "already up to date" or "already            *)
(* up-to-date" in any letter case, and changed = true otherwise; it raises *)
(* UpdateError without running the command when the path does not exist or *)
(* has no .git directory.                                                  *)
C37_UpdateResult ==
    (gw.op = "update_repo" /\ GwDone) =>
        /\ gw.at # "repo" =>
              gw.pc = "raised" /\ gw.raised = "UpdateError"
                 /\ gw.ran = 0 /\ gw.process = "none"
        /\ (gw.at = "repo" /\ git /\ gw.ends = "exit0") =>
              /\ gw.pc = "returned"
              /\ gw.value = (gw.stdout \notin UpToDateOutputs)

C37_Witness ==
    /\ gw.op = "update_repo" /\ gw.pc = "returned"
    /\ gw.stdout = UpToDateOut /\ gw.value = FALSE

\* what `await asyncio.to_thread(self.github.has_uncommitted_changes, path)` gives the
\* task for the gateway call g
HasChangesAnswer(g) ==
    IF g.pc = "raised" THEN "exc" ELSE IF g.value THEN "yes" ELSE "no"

\* a task of the orchestrator that awaits has_uncommitted_changes
AwaitingChanges ==
    [NewTask("alice", BareRepo("r1")) EXCEPT !.pc = "await_changes", !.holding = TRUE,
                                              !.ex = "yes"]

(* C38. has_uncommitted_changes returns true if and only if the status     *)
(* query succeeds and prints at least one line; when the query itself      *)
(* fails (git missing, timeout, nonzero exit) it returns false instead of  *)
(* raising, so the orchestrator goes on to update; it raises UpdateError   *)
(* only when the path does not exist or is not a repository.               *)
C38_HasChanges ==
    (gw.op = "has_uncommitted_changes" /\ GwDone) =>
        /\ gw.at # "repo" => gw.pc = "raised" /\ gw.raised = "UpdateError" /\ gw.ran = 0
        /\ gw.at = "repo" =>
              /\ gw.pc = "returned"
              /\ gw.value = (git /\ gw.ends = "exit0" /\ gw.stdout \notin {<<>>, BlankOut})
              /\ ~(git /\ gw.ends = "exit0") =>
                    /\ gw.value = FALSE
                    /\ AfterHasChanges(AwaitingChanges, HasChangesAnswer(gw), FALSE, FALSE).pc
                          = "await_update"

C38_Witness ==
    /\ gw.op = "has_uncommitted_changes" /\ gw.pc = "returned"
    /\ gw.at = "repo" /\ git /\ gw.ends = "timeout"
    /\ gw.value = FALSE


\* the call a task belongs to has handed a list of outcomes to its caller
ReturnedList(c) == calls[c].st = "returned"

\* a task whose gateway operation ended in GitNotFoundError
GitNotFoundAt(c, k) ==
    /\ k \in DOMAIN tasks[c]
    /\ tasks[c][k].op = "git_not_found"
    /\ tasks[c][k].pc = "done"

\* C33: a GitNotFoundError raised by a gateway operation during a sync is fatal
\* for the whole run: the task ends with that error, not with a SyncResult of
\* status "error", and the call does not go on to return a list of outcomes.
C33_GitMissingIsFatal ==
    \A c \in CallIds : \A k \in 1..MaxTasks :
        GitNotFoundAt(c, k) =>
            /\ tasks[c][k].result.kind # "SyncResult"
            /\ ~ReturnedList(c)


\* two tasks of one call whose destinations have the same parent directory
SharedParent(c, j, k) ==
    /\ j \in DOMAIN tasks[c] /\ k \in DOMAIN tasks[c] /\ j # k
    /\ tasks[c][j].path # <<>> /\ tasks[c][k].path # <<>>
    /\ Parent(tasks[c][j].path) = Parent(tasks[c][k].path)

\* the task has called clone_repo of the GitHubClient
CalledClone(c, k) == k \in DOMAIN tasks[c] /\ tasks[c][k].made.clone_repo > 0

\* C39: creating the parent of a clone's destination is create-if-absent: no task
\* that calls clone_repo fails on the parent directory, whichever task of the run
\* created it first, and the parent is a directory once clone_repo was called; so
\* two clones under one parent both go on to their git command.
C39_SharedParentClones ==
    \A c \in CallIds : \A k \in 1..MaxTasks :
        CalledClone(c, k) =>
            /\ tasks[c][k].result.message # FileExistsMessage
            /\ disk[Parent(tasks[c][k].path)] = "dir"
            /\ tasks[c][k].op = "none" => tasks[c][k].pc = "await_clone"

\* r1 and r2 of alice, under one parent, are both inside clone_repo at once: the
\* second of them found the parent made by the first
C39_Witness ==
    \E c \in CallIds : \E j, k \in 1..MaxTasks :
        /\ SharedParent(c, j, k)
        /\ tasks[c][j].pc = "await_clone" /\ tasks[c][k].pc = "await_clone"
        /\ disk[Parent(tasks[c][k].path)] = "dir"


\* the events of a task as (level, kind) pairs, in the order of emission
EventKinds(t) == [i \in DOMAIN t.events |-> <<t.events[i].level, t.events[i].message[1]>>]

\* the status of the outcome that stands for the task in the list of a batch call:
\* its own SyncResult, or the "error" the result loop makes of its exception
OutcomeStatus(t) == IF t.result.kind = "SyncResult" THEN t.result.status ELSE "error"

\* the events the outcome status calls for
EventsFor(t, status) ==
    CASE status = "skipped" ->
            /\ EventKinds(t) = << <<"info", "Syncing">>, <<"warning", "Skipped">> >>
            /\ t.events[2].message = SkippedMessage(t)
      [] status = "cloned" ->
            EventKinds(t) = << <<"info", "Syncing">>, <<"success", "Cloned">> >>
      [] status \in {"updated", "up-to-date"} ->
            EventKinds(t) = << <<"info", "Syncing">>, <<"info", "Updating">>,
                               <<"info", "Updated">> >>
      [] OTHER ->
            EventKinds(t) \in { << <<"info", "Syncing">>, <<"error", "Failed">> >>,
                                << <<"info", "Syncing">>, <<"info", "Updating">>,
                                   <<"error", "Failed">> >> }

\* C32: with a progress sink that does not raise, the events emitted for a
\* repository of a batch call are determined by its outcome: skipped gives Syncing
\* then the warning naming the repository and the uncommitted changes; cloned gives
\* Syncing then a success event; updated and up-to-date give Syncing, an info event
\* before and one after the update; error gives Syncing, possibly the update-start
\* event, then an error event and nothing else.
C32_EventsByOutcome ==
    progress =>
       \A c \in CallIds : \A k \in 1..MaxTasks :
          /\ calls[c].kind \in {"sync_all", "sync_account"}
          /\ k \in DOMAIN tasks[c]
          /\ tasks[c][k].pc = "done"
          /\ ~tasks[c][k].sink_raised
          /\ tasks[c][k].result.kind \in {"SyncResult", "Exception"}
          => EventsFor(tasks[c][k], OutcomeStatus(tasks[c][k]))


\* the task waits for a permit
Waiting(c, k) == k \in DOMAIN tasks[c] /\ tasks[c][k].pc = "acquire"

\* the task has had its permit: it is at a gateway operation, or it has ended
HadPermit(c, k) ==
    k \in DOMAIN tasks[c] /\ tasks[c][k].pc \in {"await_changes", "await_update",
                                                  "await_clone", "done"}

\* C31: when every gateway operation that was started completes and the event loop
\* is fair, every sync_all that was called returns, and every task that waits for
\* a permit gets one, for max_concurrent = 1 as for more permits.
C31_SyncAllReturns ==
    /\ \A c \in CallIds :
          (calls[c].kind = "sync_all" /\ calls[c].st = "running")
             ~> (calls[c].kind = "sync_all" /\ calls[c].st = "returned")
    /\ \A c \in CallIds : \A k \in 1..MaxTasks : Waiting(c, k) ~> HadPermit(c, k)

\* a sync_all over three repositories has returned with a single permit: each task
\* held the permit in its turn
C31_Witness ==
    \E c \in CallIds :
       /\ calls[c].kind = "sync_all" /\ calls[c].st = "returned"
       /\ max_concurrent = 1
       /\ Len(tasks[c]) = 3
       /\ \A k \in DOMAIN tasks[c] : tasks[c][k].made.repo_exists = 1

====
